---- MODULE Spec2Model ----
(***************************************************************************)
(* Recording process lifecycle of opendebrief.                             *)
(*                                                                         *)
(*   NativeAudioRecorder   src/src/audio/devices.ts  (Swift helper)        *)
(*   AudioRecorder         src/unnamed/part_000      (FFmpeg)              *)
(*   MeetingTranscriberApp src/src/app.ts            (single-flight guard) *)
(*                                                                         *)
(* Every action is one event-loop task: a synchronous call, a timer        *)
(* callback or the resolution of a subprocess's `exited` promise, together *)
(* with the promise continuations (microtasks) it releases.                *)
(***************************************************************************)
EXTENDS Integers, Sequences, FiniteSets, TLC

\* ------------------------------------------------------------- bounds
MaxProcs == 2        \* subprocesses the runtime still refers to at one time
MaxRecorders == 2    \* recorder instances the app constructs
MaxTicks == 1        \* clock ticks in one behaviour
MaxPauses == 1       \* pause() calls that suspend one subprocess
MaxCycles == 2       \* pause/resume cycles of one subprocess in SpecTime
MaxAdvances == 3     \* clock advances in one behaviour of SpecTime
MaxChunk == 2        \* pieces of text one read() of the helper's stdout returns
MaxMics == 2         \* microphones in the device catalog
MaxLines == 4        \* lines of a device listing given to a parser
MaxWords == 2        \* pieces of a device name
MaxFed == 4          \* pieces of text the helper writes in one behaviour

\* ---------------------------------------------------------- constants
StopTimeoutMs == 5000   \* setTimeout(..., 5000) in stop()
PermissionTimeoutMs == 5000   \* semaphore.wait(timeout: .now() + 5)

\* The clock advances by one timeout at a time.
TickMs == StopTimeoutMs
MaxTime == MaxTicks * TickMs

Recs == 1..MaxRecorders
Procs == 1..MaxProcs
NoProc == 0             \* this.process === null
NoRec == 0              \* this.recorder === null

RecordingState == {"idle", "recording", "paused", "stopping"}
Kinds == {"none", "native", "ffmpeg"}
Platforms == {"darwin", "win32"}

VARIABLES
  now,            \* Date.now()
  platform,       \* process.platform
  kind,           \* kind[r]: which class instance r is ("none": not constructed)
  state,          \* this.state
  process,        \* this.process (a Procs id, or NoProc)
  config,         \* this.config, reduced to which sources are configured
  startTime,      \* this.startTime
  pausedDuration, \* this.pausedDuration   (AudioRecorder)
  pauseStartTime, \* this.pauseStartTime   (AudioRecorder)
  pstat,          \* the OS process: unspawned, running, suspended, dead, reaped
  exitCode,       \* exit code of a terminated process
  owner,          \* the recorder whose start() spawned the process
  sigs,           \* signals sent to the process, in order
  timers,         \* armed setTimeout callbacks of stop()
  awaiting,       \* stop() calls suspended at Promise.race
  stopOutcome,    \* how the race of the stop() on a process was decided
  timerKilled,    \* what the timer of the stop() on a process sent SIGKILL to
  emitted,        \* events emitted by the last task
  last,           \* the last task: operation, recorder, state before, threw
  \* ---- MeetingTranscriberApp
  recorder,            \* this.recorder
  isStartingRecording, \* this.isStartingRecording
  recordingState,      \* this.state.recordingState
  selection,           \* selectedMic / selectedSystemAudio non-null, recordBoth
  errorMessage,        \* this.state.errorMessage, by kind
  updateInterval,      \* this.updateInterval !== null
  startCalls,          \* startRecording() calls past the guard, awaiting mkdir
  stopCalls,           \* stopRecording() calls in flight
  appAlive,            \* FALSE after process.exit(0)
  \* ---- the native helper (recorder.swift) and the reader of its stdout
  helper,              \* the helper process run by the record command
  reader,              \* handleOutput(): its buffer, what it read and emitted
  \* ---- the app's devices, saved preferences and permission check
  ui,
  \* ---- a call of one of the module-level functions: input and result
  probe

recVars == <<kind, state, process, config, startTime, pausedDuration,
             pauseStartTime>>
osVars == <<pstat, exitCode, owner, sigs>>
loopVars == <<timers, awaiting, stopOutcome, timerKilled>>
appVars == <<recorder, isStartingRecording, recordingState, selection,
             errorMessage, updateInterval, startCalls, stopCalls, appAlive>>
hostVars == <<platform, helper, reader, ui, probe>>
vars == <<now, hostVars, recVars, osVars, loopVars, emitted, last, appVars>>

\* ------------------------------------------------------------- events
Ev(r, name, st, dur) == [rec |-> r, ev |-> name, state |-> st, duration |-> dur]
StateChange(r, st) == Ev(r, "stateChange", st, 0)
ErrorEv(r) == Ev(r, "error", "", 0)
Finished(r, dur) == Ev(r, "finished", "", dur)

\* The task just run: the operation, the recorder it ran on, that recorder's
\* state before it, the error the call threw ("": it returned normally), and
\* the recorder whose stop() call returned in this task (NoRec: none did).
Task(op, r, pre, err, done) ==
  [op |-> op, rec |-> r, pre |-> pre, err |-> err, done |-> done]

Emits(e) == \E i \in 1..Len(emitted) : emitted[i] = e

\* -------------------------------------------------------- OS processes
Alive(p) == pstat[p] \in {"running", "suspended"}

FreeProcs == {p \in Procs : pstat[p] = "unspawned"}
NextProc == CHOOSE p \in FreeProcs : \A q \in FreeProcs : p <= q

\* The process table after `sig` is sent to p.  SIGKILL ends a live process
\* at once; SIGSTOP and SIGCONT suspend and continue it; SIGINT and SIGTERM
\* are left to the process (see Terminate).  A signal to a process that has
\* already terminated changes nothing.
StatAfter(ps, p, sig) ==
  IF ps[p] \notin {"running", "suspended"} THEN ps
  ELSE IF sig = "SIGKILL" THEN [ps EXCEPT ![p] = "dead"]
  ELSE IF sig = "SIGSTOP" THEN [ps EXCEPT ![p] = "suspended"]
  ELSE IF sig = "SIGCONT" THEN [ps EXCEPT ![p] = "running"]
  ELSE ps

CodeAfter(ec, ps, p, sig) ==
  IF ps[p] \in {"running", "suspended"} /\ sig = "SIGKILL"
  THEN [ec EXCEPT ![p] = 1] ELSE ec

SigsAfter(sg, p, sig) == [sg EXCEPT ![p] = Append(@, sig)]

\* ------------------------------------------------------ getElapsedTime
NativeElapsedTime(r) ==
  IF state[r] = "idle" THEN 0 ELSE now - startTime[r]

\* Mutant of FFmpegElapsedTime: the paused state is not told apart.
FFmpegElapsedTimeRunning(r) ==
  IF state[r] = "idle" THEN 0 ELSE now - startTime[r] - pausedDuration[r]

FFmpegElapsedTime(r) ==
  IF state[r] = "idle" THEN 0
  ELSE IF state[r] = "paused"
       THEN pauseStartTime[r] - startTime[r] - pausedDuration[r]
       ELSE now - startTime[r] - pausedDuration[r]

getElapsedTime(r) ==
  IF kind[r] = "native" THEN NativeElapsedTime(r) ELSE FFmpegElapsedTime(r)

\* --------------------------------------------------------------- start
\* Bun.spawn succeeded: the handle is stored, the state flips to recording.
Spawned(r) ==
  /\ FreeProcs # {}
  /\ process' = [process EXCEPT ![r] = NextProc]
  /\ pstat' = [pstat EXCEPT ![NextProc] = "running"]
  /\ owner' = [owner EXCEPT ![NextProc] = r]
  /\ state' = [state EXCEPT ![r] = "recording"]
  /\ startTime' = [startTime EXCEPT ![r] = now]
  /\ emitted' = <<StateChange(r, "recording")>>

\* Mutant of SpawnFailed: the state was flipped before the spawn and the
\* catch block does not put it back.
SpawnFailedKeepsRecording(r) ==
  /\ state' = [state EXCEPT ![r] = "recording"]
  /\ emitted' = <<ErrorEv(r)>>
  /\ UNCHANGED <<process, startTime, pstat, owner>>

\* Bun.spawn threw: catch block of start().
SpawnFailed(r) ==
  /\ state' = [state EXCEPT ![r] = "idle"]
  /\ emitted' = <<ErrorEv(r)>>
  /\ UNCHANGED <<process, startTime, pstat, owner>>

\* Mutant of StartRejected: the guard is missing and start() spawns anyway.
StartRejectedSpawns(r) == Spawned(r)

\* `state !== "idle"` guard of start(): throws before anything is touched.
StartRejected(r) ==
  /\ emitted' = <<>>
  /\ UNCHANGED <<state, process, startTime, pstat, owner>>

NativeStart(r, spawnOk) ==
  /\ last' = Task("start", r, state[r],
                  IF state[r] # "idle" THEN "InvalidState"
                  ELSE IF spawnOk THEN "" ELSE "SpawnFailed", NoRec)
  /\ IF state[r] # "idle" THEN StartRejected(r)
     ELSE IF spawnOk THEN Spawned(r)
     ELSE SpawnFailed(r)
  /\ UNCHANGED <<kind, config, pausedDuration, pauseStartTime, exitCode, sigs,
                 loopVars>>

\* Mutant of StartPausedDuration: start() keeps the earlier session's total.
StartPausedDurationKept(pd) == pd

\* `this.pausedDuration = 0` of start().
StartPausedDuration(pd) == 0

FFmpegStart(r, spawnOk) ==
  /\ last' = Task("start", r, state[r],
                  IF state[r] # "idle" THEN "InvalidState"
                  ELSE IF ~config[r].mic /\ ~config[r].sys THEN "NoDevice"
                  ELSE IF spawnOk THEN "" ELSE "SpawnFailed", NoRec)
  /\ IF state[r] # "idle" THEN
        StartRejected(r) /\ UNCHANGED pausedDuration
     ELSE IF ~config[r].mic /\ ~config[r].sys THEN
        StartRejected(r) /\ UNCHANGED pausedDuration
     ELSE IF spawnOk THEN
        Spawned(r)
        /\ pausedDuration' =
             [pausedDuration EXCEPT ![r] = StartPausedDuration(@)]
     ELSE
        SpawnFailed(r) /\ UNCHANGED pausedDuration
  /\ UNCHANGED <<kind, config, pauseStartTime, exitCode, sigs, loopVars>>

\* ---------------------------------------------------------------- stop
Timer(r, p) == [rec |-> r, proc |-> p, due |-> now + StopTimeoutMs]

\* Mutant of FFmpegStopAllowed: stop() is let through while stopping.
FFmpegStopAllowedWhileStopping == {"recording", "paused", "stopping"}

\* The state guard of stop(): the states it may be called in.
NativeStopAllowed == {"recording"}
FFmpegStopAllowed == {"recording", "paused"}

\* What stop() does after `await Promise.race([...])`, and after the
\* `if (this.process)` block when there is no process.
NativeStopResumeState(s) == "idle"
NativeStopResumeEvents(r) == <<StateChange(r, "idle")>>
FFmpegStopResumeState(s) == s
FFmpegStopResumeEvents(r) == <<>>

StopResumeState(r, s) ==
  IF kind[r] = "native" THEN NativeStopResumeState(s)
  ELSE FFmpegStopResumeState(s)
StopResumeEvents(r) ==
  IF kind[r] = "native" THEN NativeStopResumeEvents(r)
  ELSE FFmpegStopResumeEvents(r)

\* Mutant of StopSignals: the interrupt goes out before the continue.
StopSignalsInterruptFirst(r) ==
  <<"SIGINT">> \o
    (IF kind[r] = "ffmpeg" /\ state[r] = "paused" /\ platform # "win32"
     THEN <<"SIGCONT">> ELSE <<>>)

\* The signals stop() sends before it awaits: SIGCONT to a paused FFmpeg
\* (not on win32), then SIGINT.
StopSignals(r) ==
  (IF kind[r] = "ffmpeg" /\ state[r] = "paused" /\ platform # "win32"
   THEN <<"SIGCONT">> ELSE <<>>) \o <<"SIGINT">>

RECURSIVE SendAll(_, _, _)
SendAll(tbl, p, ss) ==
  IF ss = <<>> THEN tbl
  ELSE SendAll([ps |-> StatAfter(tbl.ps, p, Head(ss)),
                ec |-> CodeAfter(tbl.ec, tbl.ps, p, Head(ss)),
                sg |-> SigsAfter(tbl.sg, p, Head(ss))], p, Tail(ss))

Send(p, ss) ==
  LET t == SendAll([ps |-> pstat, ec |-> exitCode, sg |-> sigs], p, ss) IN
  /\ pstat' = t.ps
  /\ exitCode' = t.ec
  /\ sigs' = t.sg

StopBody(r, allowed) ==
  LET p == process[r] IN
  IF state[r] \notin allowed THEN
    /\ last' = Task("stop", r, state[r], "InvalidState", NoRec)
    /\ emitted' = <<>>
    /\ UNCHANGED <<state, process, osVars, loopVars>>
  ELSE IF p = NoProc THEN
    \* no process: nothing to signal or to wait for
    /\ last' = Task("stop", r, state[r], "", r)
    /\ state' = [state EXCEPT ![r] = StopResumeState(r, "stopping")]
    /\ emitted' = <<StateChange(r, "stopping")>> \o StopResumeEvents(r)
    /\ process' = [process EXCEPT ![r] = NoProc]
    /\ UNCHANGED <<osVars, loopVars>>
  ELSE
    /\ Send(p, StopSignals(r))
    /\ timers' = timers \cup {Timer(r, p)}
    /\ UNCHANGED <<owner, timerKilled>>
    /\ IF pstat[p] = "reaped" THEN
         \* `exited` is already resolved: the race is won at once
         /\ last' = Task("stop", r, state[r], "", r)
         /\ state' = [state EXCEPT ![r] = StopResumeState(r, "stopping")]
         /\ emitted' = <<StateChange(r, "stopping")>> \o StopResumeEvents(r)
         /\ process' = [process EXCEPT ![r] = NoProc]
         /\ stopOutcome' = [stopOutcome EXCEPT ![p] = "exited"]
         /\ UNCHANGED awaiting
       ELSE
         /\ last' = Task("stop", r, state[r], "", NoRec)
         /\ state' = [state EXCEPT ![r] = "stopping"]
         /\ emitted' = <<StateChange(r, "stopping")>>
         /\ awaiting' = awaiting \cup {<<r, p>>}
         /\ stopOutcome' = [stopOutcome EXCEPT ![p] = "pending"]
         /\ UNCHANGED process

NativeStop(r) ==
  /\ StopBody(r, NativeStopAllowed)
  /\ UNCHANGED <<kind, config, startTime, pausedDuration, pauseStartTime>>

FFmpegStop(r) ==
  /\ StopBody(r, FFmpegStopAllowed)
  /\ UNCHANGED <<kind, config, startTime, pausedDuration, pauseStartTime>>

\* ---------------------------------------------------------------- kill
\* NativeAudioRecorder.kill sends SIGKILL; AudioRecorder.kill calls
\* process.kill() with no argument, which is SIGTERM.
KillSignal(r) == IF kind[r] = "native" THEN "SIGKILL" ELSE "SIGTERM"

KillCall(r) ==
  /\ last' = Task("kill", r, state[r], "", NoRec)
  /\ IF process[r] # NoProc
     THEN Send(process[r], <<KillSignal(r)>>)
     ELSE UNCHANGED <<pstat, exitCode, sigs>>
  /\ process' = [process EXCEPT ![r] = NoProc]
  /\ state' = [state EXCEPT ![r] = "idle"]
  /\ emitted' = <<StateChange(r, "idle")>>
  /\ UNCHANGED <<kind, config, startTime, pausedDuration, pauseStartTime,
                 owner, loopVars>>

\* ------------------------------------------------------ pause / resume
FFmpegPause(r) ==
  IF state[r] # "recording" THEN
    /\ last' = Task("pause", r, state[r], "InvalidState", NoRec)
    /\ emitted' = <<>>
    /\ UNCHANGED <<recVars, osVars, loopVars>>
  ELSE IF platform # "win32" /\ process[r] # NoProc THEN
    /\ last' = Task("pause", r, state[r], "", NoRec)
    /\ Send(process[r], <<"SIGSTOP">>)
    /\ state' = [state EXCEPT ![r] = "paused"]
    /\ pauseStartTime' = [pauseStartTime EXCEPT ![r] = now]
    /\ emitted' = <<StateChange(r, "paused")>>
    /\ UNCHANGED <<kind, process, config, startTime, pausedDuration, owner,
                   loopVars>>
  ELSE
    /\ last' = Task("pause", r, state[r], "", NoRec)
    /\ emitted' = <<>>
    /\ UNCHANGED <<recVars, osVars, loopVars>>

FFmpegResume(r) ==
  IF state[r] # "paused" THEN
    /\ last' = Task("resume", r, state[r], "InvalidState", NoRec)
    /\ emitted' = <<>>
    /\ UNCHANGED <<recVars, osVars, loopVars>>
  ELSE IF platform # "win32" /\ process[r] # NoProc THEN
    /\ last' = Task("resume", r, state[r], "", NoRec)
    /\ Send(process[r], <<"SIGCONT">>)
    /\ pausedDuration' =
         [pausedDuration EXCEPT ![r] = @ + (now - pauseStartTime[r])]
    /\ state' = [state EXCEPT ![r] = "recording"]
    /\ emitted' = <<StateChange(r, "recording")>>
    /\ UNCHANGED <<kind, process, config, startTime, pauseStartTime, owner,
                   loopVars>>
  ELSE
    /\ last' = Task("resume", r, state[r], "", NoRec)
    /\ emitted' = <<>>
    /\ UNCHANGED <<recVars, osVars, loopVars>>

\* ----------------------------------------------------------- setConfig
SetConfigCall(r, cfg) ==
  /\ last' = Task("setConfig", r, state[r],
                  IF state[r] # "idle" THEN "InvalidState" ELSE "", NoRec)
  /\ config' = IF state[r] # "idle" THEN config
               ELSE [config EXCEPT ![r] = cfg]
  /\ emitted' = <<>>
  /\ UNCHANGED <<kind, state, process, startTime, pausedDuration,
                 pauseStartTime, osVars, loopVars>>

\* ------------------------------------------- the `exited` promise handler
\* process.exited.then(...) registered by start(): what it makes of the state
\* and what it emits.  NativeAudioRecorder acts only while recording;
\* AudioRecorder always goes idle and reports `finished` on exit code 0.
\* Mutant of NativeExitState: the handler leaves the state alone.
NativeExitStateKept(s) == s

NativeExitState(s) == IF s = "recording" THEN "idle" ELSE s
NativeExitEvents(r, s, code) ==
  IF s = "recording" THEN <<StateChange(r, "idle")>> ELSE <<>>

FFmpegExitState(s) == "idle"
FFmpegExitEvents(r, s, code) ==
  (IF code = 0 THEN <<Finished(r, FFmpegElapsedTime(r))>> ELSE <<>>)
    \o <<StateChange(r, "idle")>>

ExitState(r, s) ==
  IF kind[r] = "native" THEN NativeExitState(s) ELSE FFmpegExitState(s)
ExitEvents(r, s, code) ==
  IF kind[r] = "native" THEN NativeExitEvents(r, s, code)
  ELSE FFmpegExitEvents(r, s, code)

\* The subprocess p has terminated and its `exited` promise resolves: first
\* the handler start() registered, then the stop() awaiting p, if any.
ExitedTask(p) ==
  LET r == owner[p]
      waiting == <<r, p>> \in awaiting
      s1 == ExitState(r, state[r])
  IN
  /\ pstat[p] = "dead"
  /\ pstat' = [pstat EXCEPT ![p] = "reaped"]
  /\ exitCode' = [exitCode EXCEPT ![p] = 0]
  /\ last' = Task("exited", r, state[r], "", IF waiting THEN r ELSE NoRec)
  /\ state' = [state EXCEPT
                 ![r] = IF waiting THEN StopResumeState(r, s1) ELSE s1]
  /\ emitted' = ExitEvents(r, state[r], exitCode[p])
                  \o (IF waiting THEN StopResumeEvents(r) ELSE <<>>)
  /\ process' = IF waiting THEN [process EXCEPT ![r] = NoProc] ELSE process
  /\ awaiting' = awaiting \ {<<r, p>>}
  /\ stopOutcome' = IF waiting THEN [stopOutcome EXCEPT ![p] = "exited"]
                    ELSE stopOutcome
  /\ UNCHANGED <<kind, config, startTime, pausedDuration, pauseStartTime,
                 owner, sigs, timers, timerKilled>>

\* ----------------------------------------------- the setTimeout callback
\* Mutant of TimerTarget: the callback force-kills nothing.
TimerTargetNone(t) == NoProc

\* `if (this.process) this.process.kill("SIGKILL"); resolve()`: the callback
\* reads this.process when it runs, and resolve() releases the stop() that
\* armed it unless the race is already decided.
TimerTarget(t) == process[t.rec]

TimerTask(t) ==
  LET r == t.rec
      target == TimerTarget(t)
      waiting == <<r, t.proc>> \in awaiting
  IN
  /\ t \in timers
  /\ t.due <= now
  /\ timers' = timers \ {t}
  /\ IF target # NoProc
     THEN /\ Send(target, <<"SIGKILL">>)
          /\ timerKilled' = [timerKilled EXCEPT
                 ![t.proc] = IF target = t.proc THEN "self" ELSE "other"]
     ELSE UNCHANGED <<pstat, exitCode, sigs, timerKilled>>
  /\ last' = Task("timeout", r, state[r], "", IF waiting THEN r ELSE NoRec)
  /\ state' = IF waiting
              THEN [state EXCEPT ![r] = StopResumeState(r, state[r])]
              ELSE state
  /\ emitted' = IF waiting THEN StopResumeEvents(r) ELSE <<>>
  /\ process' = IF waiting THEN [process EXCEPT ![r] = NoProc] ELSE process
  /\ awaiting' = awaiting \ {<<r, t.proc>>}
  /\ stopOutcome' = IF waiting THEN [stopOutcome EXCEPT ![t.proc] = "timeout"]
                    ELSE stopOutcome
  /\ UNCHANGED <<kind, config, startTime, pausedDuration, pauseStartTime,
                 owner>>

\* ------------------------------------------------------ the environment
\* A running subprocess ends by itself: it finalises after SIGINT or
\* SIGTERM, or fails, or is done (exit code 0 or not).
TerminateTask(p, code) ==
  /\ pstat[p] = "running"
  /\ pstat' = [pstat EXCEPT ![p] = "dead"]
  /\ exitCode' = [exitCode EXCEPT ![p] = code]
  /\ last' = Task("terminate", owner[p], state[owner[p]], "", NoRec)
  /\ emitted' = <<>>
  /\ UNCHANGED <<recVars, owner, sigs, loopVars>>

\* The runtime drops a subprocess object nothing refers to any more: it has
\* exited and its handlers have run, no recorder holds it in this.process and
\* no timer of a stop() on it is armed.  Its slot is free for the next spawn.
Referenced(p) ==
  \/ pstat[p] \in {"running", "suspended", "dead"}
  \/ \E r \in Recs : process[r] = p
  \/ \E t \in timers : t.proc = p
  \/ \E w \in awaiting : w[2] = p

Releasable == {p \in Procs : pstat[p] = "reaped" /\ ~Referenced(p)}

ReleaseTask ==
  /\ Releasable # {}
  /\ pstat' = [p \in Procs |-> IF p \in Releasable THEN "unspawned" ELSE pstat[p]]
  /\ exitCode' = [p \in Procs |-> IF p \in Releasable THEN 0 ELSE exitCode[p]]
  /\ owner' = [p \in Procs |-> IF p \in Releasable THEN NoRec ELSE owner[p]]
  /\ sigs' = [p \in Procs |-> IF p \in Releasable THEN <<>> ELSE sigs[p]]
  /\ stopOutcome' =
       [p \in Procs |-> IF p \in Releasable THEN "none" ELSE stopOutcome[p]]
  /\ timerKilled' =
       [p \in Procs |-> IF p \in Releasable THEN "none" ELSE timerKilled[p]]
  /\ last' = Task("release", NoRec, "", "", NoRec)
  /\ emitted' = <<>>
  /\ UNCHANGED <<recVars, timers, awaiting>>

\* Time passes, once every due timer has run and every terminated
\* subprocess has been noticed.
TickTask ==
  /\ now + TickMs <= MaxTime
  /\ \A t \in timers : t.due > now
  /\ \A p \in Procs : pstat[p] # "dead"
  /\ now' = now + TickMs
  /\ last' = Task("tick", NoRec, "", "", NoRec)
  /\ emitted' = <<>>
  /\ UNCHANGED <<recVars, osVars, loopVars>>

\* ====================================================================
\* The native helper: the record command of recorder.swift, as the
\* subprocess of a NativeAudioRecorder.
\* ====================================================================
\* The files of one recording: the requested output path, the two temporary
\* files of both-mode and the two files the fallback renames them to.
FileNames == {"output", "temp_mic", "temp_sys", "mic", "system"}
TempFiles == {"temp_mic", "temp_sys"}

NoHelper ==
  [proc |-> NoProc, phase |-> "none", mode |-> "mic", shouldStop |-> FALSE,
   handled |-> 0,
   out |-> <<>>, files |-> {}, merge |-> "none", code |-> -1]

\* Nothing read from the helper's stdout yet: no subprocess to read from,
\* an empty buffer, nothing fed and no event emitted.
NoReader ==
  [proc |-> NoProc, open |-> FALSE, buffer |-> <<>>, fed |-> <<>>,
   heard |-> <<>>]

\* The flag start() passes to the helper.
HelperMode(cfg) ==
  IF cfg.mic /\ cfg.sys THEN "both"
  ELSE IF cfg.sys THEN "system"
  ELSE "mic"

\* The option parsing of the record command: what the session records for
\* the flag it is given.
SessionSources(flag) ==
  CASE flag = "mic" -> [mic |-> TRUE, sys |-> FALSE]
    [] flag = "system" -> [mic |-> FALSE, sys |-> TRUE]
    [] flag = "both" -> [mic |-> TRUE, sys |-> TRUE]

\* The files RecordingSession.start() records to.
RecordingFiles(mode) == IF mode = "both" THEN TempFiles ELSE {"output"}

\* Mutant of MergeWanted: the merge is attempted in every mode.
MergeWantedAlways(mode) == TRUE

\* `if let mic = micPath, let sys = sysPath`: both are set in both-mode only.
MergeWanted(mode) == mode = "both"

\* Mutant of FallbackFiles: the temporary files are removed, not renamed.
FallbackFilesRemoved(files) == files \ TempFiles

\* The tail of mergeAudioFiles: the temporary files are moved to
\* <base>_mic.m4a and <base>_system.m4a.
FallbackFiles(files) ==
  (files \ TempFiles)
    \cup (IF "temp_mic" \in files THEN {"mic"} ELSE {})
    \cup (IF "temp_sys" \in files THEN {"system"} ELSE {})

\* The merge tool exited with status 0: both temporary files are removed and
\* the merged file is at the output path.
MergedFiles(files) == (files \ TempFiles) \cup {"output"}

\* Mutant of StopRequested: the wait loop does not look at the flag.
StopRequestedAlways(h) == TRUE

\* `while !shouldStop`: the wait loop ends once a signal handler has run.
StopRequested(h) == h.shouldStop

HelperRuns ==
  IF helper.proc = NoProc THEN FALSE ELSE pstat[helper.proc] = "running"

\* exit(code): the helper process ends by itself.
HelperExit(code) ==
  /\ pstat' = [pstat EXCEPT ![helper.proc] = "dead"]
  /\ exitCode' = [exitCode EXCEPT ![helper.proc] = code]

\* What no step of the helper touches.
HelperFrame ==
  <<now, platform, reader, ui, probe, recVars, owner, sigs, loopVars, appVars>>

\* Mutant of HelperStarted: the stop flag is cleared when the session has
\* started, as if it were declared after the start.
HelperStartedClearsFlag ==
  /\ HelperRuns
  /\ helper.phase = "starting"
  /\ helper' = [helper EXCEPT !.phase = "recording",
                              !.files = RecordingFiles(helper.mode),
                              !.out = Append(@, "started"),
                              !.shouldStop = FALSE]
  /\ last' = Task("helperStarted", owner[helper.proc], "", "", NoRec)
  /\ emitted' = <<>>
  /\ UNCHANGED <<HelperFrame, pstat, exitCode>>

\* try await session.start() returned: "Recording started" is printed.
HelperStarted ==
  /\ HelperRuns
  /\ helper.phase = "starting"
  /\ helper' = [helper EXCEPT !.phase = "recording",
                              !.files = RecordingFiles(helper.mode),
                              !.out = Append(@, "started")]
  /\ last' = Task("helperStarted", owner[helper.proc], "", "", NoRec)
  /\ emitted' = <<>>
  /\ UNCHANGED <<HelperFrame, pstat, exitCode>>

\* session.start() threw, with some of its files already created: the catch
\* block prints the error and exits 1.
HelperStartFailed ==
  \E made \in SUBSET RecordingFiles(helper.mode) :
    /\ HelperRuns
    /\ helper.phase = "starting"
    /\ helper' = [helper EXCEPT !.phase = "exited", !.files = made,
                                !.out = Append(@, "error"), !.code = 1]
    /\ HelperExit(1)
    /\ last' = Task("helperFailed", owner[helper.proc], "", "", NoRec)
    /\ emitted' = <<>>
    /\ UNCHANGED HelperFrame

\* The SIGINT or SIGTERM dispatch source fires, once for the signals that
\* have arrived since it last fired: shouldStop = true.  The sources are
\* resumed before the Task that starts the session is created, so this can
\* happen in any phase of the run.
HelperSignal ==
  /\ HelperRuns
  /\ \E i \in (helper.handled + 1)..Len(sigs[helper.proc]) :
       sigs[helper.proc][i] \in {"SIGINT", "SIGTERM"}
  /\ helper' = [helper EXCEPT !.shouldStop = TRUE,
                              !.handled = Len(sigs[helper.proc])]
  /\ last' = Task("helperSignal", owner[helper.proc], "", "", NoRec)
  /\ emitted' = <<>>
  /\ UNCHANGED <<HelperFrame, pstat, exitCode>>

\* The wait loop ends and session.stop() runs.  In both-mode the merge tool
\* is looked up and launched; when it is missing or cannot be run the files
\* are renamed.  Without a merge under way "Recording stopped" is printed
\* and the helper exits 0.
HelperStopSession ==
  \E found \in BOOLEAN :
    /\ HelperRuns
    /\ helper.phase = "recording"
    /\ StopRequested(helper)
    /\ last' = Task("helperStop", owner[helper.proc], "", "", NoRec)
    /\ emitted' = <<>>
    /\ UNCHANGED HelperFrame
    /\ IF MergeWanted(helper.mode) /\ found THEN
         /\ helper' = [helper EXCEPT !.phase = "merging", !.merge = "launched"]
         /\ UNCHANGED <<pstat, exitCode>>
       ELSE
         /\ helper' =
              [helper EXCEPT
                 !.phase = "exited",
                 !.files = IF MergeWanted(helper.mode)
                           THEN FallbackFiles(@) ELSE @,
                 !.merge = IF MergeWanted(helper.mode)
                           THEN "unavailable" ELSE @,
                 !.out = Append(@, "stopped"),
                 !.code = 0]
         /\ HelperExit(0)

\* process.waitUntilExit() returns.  Status 0: the temporary files are
\* removed.  Any other status: they are renamed, and the merge tool may have
\* left a file at the output path.  Then "Recording stopped", exit 0.
HelperMergeExit ==
  \E ok \in BOOLEAN, partial \in BOOLEAN :
    /\ HelperRuns
    /\ helper.phase = "merging"
    /\ ok => ~partial
    /\ helper' =
         [helper EXCEPT
            !.phase = "exited",
            !.files = IF ok THEN MergedFiles(@)
                      ELSE FallbackFiles(@)
                             \cup (IF partial THEN {"output"} ELSE {}),
            !.merge = IF ok THEN "ok" ELSE "failed",
            !.out = Append(@, "stopped"),
            !.code = 0]
    /\ HelperExit(0)
    /\ last' = Task("helperMerged", owner[helper.proc], "", "", NoRec)
    /\ emitted' = <<>>
    /\ UNCHANGED HelperFrame

\* ====================================================================
\* handleOutput(): the controller's reader of the helper's stdout
\* ====================================================================
\* The text on the pipe, in pieces.  "NL" is a line feed.  "S1" and "S2" are
\* the two halves of the line {"success":true,"message":"Recording started"},
\* "P" is the whole line {"success":true,"message":"Recording stopped"}, "E"
\* the line {"success":false,"error":"failed"}, "O" a JSON object that is
\* none of these ({"success":true,"message":"Devices listed"}) and "X" text
\* that is not JSON.  A read() returns any run of pieces, so a line may
\* arrive whole, with others, or cut in two.
Atoms == {"NL", "S1", "S2", "P", "E", "O", "X"}

RECURSIVE ChunksOf(_)
ChunksOf(n) ==
  IF n = 0 THEN {}
  ELSE [1..n -> Atoms] \cup ChunksOf(n - 1)

HelperEv(name, text) == [name |-> name, text |-> text]

\* buffer.split("\n"): the text between the line feeds, the text after the
\* last line feed included.
RECURSIVE Split(_)
Split(text) ==
  IF \A i \in 1..Len(text) : text[i] # "NL" THEN <<text>>
  ELSE LET i == CHOOSE j \in 1..Len(text) :
                  /\ text[j] = "NL"
                  /\ \A k \in 1..(j - 1) : text[k] # "NL"
       IN  <<SubSeq(text, 1, i - 1)>> \o Split(SubSeq(text, i + 1, Len(text)))

\* lines.pop() || "": what is left of the split is the complete lines, and
\* the last piece is carried over to the next read.
Complete(lines) == SubSeq(lines, 1, Len(lines) - 1)

\* A reader that keeps no incomplete line between reads.
CarryNothing(lines) == <<>>

Carry(lines) == lines[Len(lines)]

\* JSON.parse(line) throws on text that is not one JSON value.
ParseFails(line) == line \notin {<<"S1", "S2">>, <<"P">>, <<"E">>, <<"O">>}

\* JSON.parse(line) as RecorderMessage.
Message(line) ==
  CASE line = <<"S1", "S2">> ->
         [success |-> TRUE, message |-> "Recording started", error |-> ""]
    [] line = <<"P">> ->
         [success |-> TRUE, message |-> "Recording stopped", error |-> ""]
    [] line = <<"E">> ->
         [success |-> FALSE, message |-> "", error |-> "failed"]
    [] OTHER ->
         [success |-> TRUE, message |-> "Devices listed", error |-> ""]

\* The branches on a parsed message.
MessageEvents(msg) ==
  IF msg.success /\ msg.message = "Recording started"
    THEN <<HelperEv("started", "")>>
  ELSE IF msg.success /\ msg.message = "Recording stopped"
    THEN <<HelperEv("stopped", "")>>
  ELSE IF ~msg.success /\ msg.error # ""
    THEN <<HelperEv("error", msg.error)>>
  ELSE <<>>

\* A loop whose try/catch is around the whole loop, not inside it.
ParseErrorUncaught(line) == FALSE

\* The try/catch around JSON.parse is inside the loop over the lines: a
\* parse error is caught there and the loop goes on to the next line.
ParseErrorCaught(line) == TRUE

\* The loop over the complete lines of one read: the events emitted, and
\* whether the reader is still reading afterwards.  A blank line is skipped
\* (line.trim() is empty).
RECURSIVE HandleLines(_)
HandleLines(lines) ==
  IF lines = <<>> THEN [events |-> <<>>, open |-> TRUE]
  ELSE LET line == Head(lines) IN
    IF line = <<>> THEN HandleLines(Tail(lines))
    ELSE IF ParseFails(line)
      THEN IF ParseErrorCaught(line) THEN HandleLines(Tail(lines))
           ELSE [events |-> <<>>, open |-> FALSE]
    ELSE LET rest == HandleLines(Tail(lines))
         IN  [events |-> MessageEvents(Message(line)) \o rest.events,
              open |-> rest.open]

ReaderFrame ==
  <<now, platform, helper, ui, probe, recVars, osVars, loopVars, appVars>>

\* One turn of the read loop with data: the chunk is appended to the buffer,
\* the complete lines are handled and the rest is kept.  The recorder whose
\* start() began the loop is the one the events are emitted on.
ReadChunk ==
  \E chunk \in ChunksOf(MaxChunk) :
    /\ reader.open
    /\ Len(reader.fed) + Len(chunk) <= MaxFed
    /\ LET lines == Split(reader.buffer \o chunk)
           done == HandleLines(Complete(lines))
       IN  reader' = [reader EXCEPT !.buffer = Carry(lines),
                                    !.fed = @ \o chunk,
                                    !.heard = @ \o done.events,
                                    !.open = done.open]
    /\ last' = Task("read", owner[reader.proc], state[owner[reader.proc]],
                    "", NoRec)
    /\ emitted' = <<>>
    /\ UNCHANGED ReaderFrame

\* The turn of the read loop that finds the stream ended (done): the loop
\* is left and what is in the buffer is dropped.  The pipe ends when the
\* helper has.
ReadDone ==
  /\ reader.open
  /\ ~Alive(reader.proc)
  /\ reader' = [reader EXCEPT !.open = FALSE]
  /\ last' = Task("readDone", owner[reader.proc],
                  state[owner[reader.proc]], "", NoRec)
  /\ emitted' = <<>>
  /\ UNCHANGED ReaderFrame

\* ====================================================================
\* Spec: one recorder instance of either class, driven by any caller.
\* ====================================================================
Configs == [mic : BOOLEAN, sys : BOOLEAN]
\* The configurations a recorder is constructed with here: one source, none.
InitConfigs == {[mic |-> TRUE, sys |-> FALSE], [mic |-> FALSE, sys |-> FALSE]}
NoSelection == [mic |-> FALSE, sys |-> FALSE, both |-> FALSE]

\* The app before init() has loaded anything, and no function call made.
NoUi ==
  [loaded |-> "no", listing |-> "", mics |-> {}, system |-> FALSE, savedMicId |-> 0,
   savedMicName |-> 0, savedMode |-> "mic", selectedMic |-> 0,
   screen |-> "main", perm |-> "none", out |-> "", waited |-> 0,
   screenRecordingPermission |-> FALSE, permissionError |-> ""]
NoProbe == [fn |-> "none", input |-> <<>>, output |-> <<>>, done |-> FALSE]
NoHost == ui = NoUi /\ probe = NoProbe

InitOS ==
  /\ now = 0
  /\ pstat = [p \in Procs |-> "unspawned"]
  /\ exitCode = [p \in Procs |-> 0]
  /\ owner = [p \in Procs |-> NoRec]
  /\ sigs = [p \in Procs |-> <<>>]
  /\ timers = {}
  /\ awaiting = {}
  /\ stopOutcome = [p \in Procs |-> "none"]
  /\ timerKilled = [p \in Procs |-> "none"]
  /\ emitted = <<>>
  /\ last = Task("init", NoRec, "", "", NoRec)
  /\ helper = NoHelper
  /\ reader = NoReader

InitRecorders(k, cfg) ==
  /\ kind = [r \in Recs |-> IF r = 1 THEN k ELSE "none"]
  /\ state = [r \in Recs |-> "idle"]
  /\ process = [r \in Recs |-> NoProc]
  /\ config = [r \in Recs |-> IF r = 1 THEN cfg
                                ELSE [mic |-> FALSE, sys |-> FALSE]]
  /\ startTime = [r \in Recs |-> 0]
  /\ pausedDuration = [r \in Recs |-> 0]
  /\ pauseStartTime = [r \in Recs |-> 0]

NoApp ==
  /\ recorder = NoRec
  /\ isStartingRecording = FALSE
  /\ recordingState = "idle"
  /\ selection = NoSelection
  /\ errorMessage = ""
  /\ updateInterval = FALSE
  /\ startCalls = <<>>
  /\ stopCalls = {}
  /\ appAlive = FALSE

Init ==
  /\ InitOS
  /\ NoHost
  /\ platform \in Platforms
  /\ \E k \in {"native", "ffmpeg"}, cfg \in InitConfigs :
       /\ k = "native" => platform = "darwin"
       /\ InitRecorders(k, cfg)
  /\ NoApp

\* Release runs as soon as it can: every other task finds the table tidy.
Tidy == Releasable = {}

Constructed == {r \in Recs : Tidy /\ kind[r] # "none"}
Outside == <<now, hostVars, appVars>>

StartCall(r, spawnOk) ==
  IF kind[r] = "native" THEN NativeStart(r, spawnOk)
  ELSE FFmpegStart(r, spawnOk)

StopCall(r) ==
  IF kind[r] = "native" THEN NativeStop(r) ELSE FFmpegStop(r)

StopAllowed(r) ==
  IF kind[r] = "native" THEN NativeStopAllowed ELSE FFmpegStopAllowed

\* In Spec the caller makes each call in a state that permits it; the calls
\* made in the other states are the Invalid... actions of SpecCalls.
Start ==
  \E r \in Constructed, spawnOk \in BOOLEAN :
    /\ state[r] = "idle"
    /\ StartCall(r, spawnOk)
    /\ UNCHANGED Outside

Stop ==
  \E r \in Constructed :
    /\ state[r] \in StopAllowed(r)
    /\ StopCall(r)
    /\ UNCHANGED Outside

Kill == \E r \in Constructed : KillCall(r) /\ UNCHANGED Outside

\* SIGSTOPs sent to the recorder's subprocess so far.
Pauses(r) ==
  IF process[r] = NoProc THEN 0
  ELSE Cardinality({i \in 1..Len(sigs[process[r]]) :
                      sigs[process[r]][i] = "SIGSTOP"})

Pause ==
  \E r \in Constructed :
    /\ kind[r] = "ffmpeg"
    /\ state[r] = "recording"
    /\ Pauses(r) < MaxPauses
    /\ FFmpegPause(r)
    /\ UNCHANGED Outside

Resume ==
  \E r \in Constructed :
    /\ kind[r] = "ffmpeg"
    /\ state[r] = "paused"
    /\ FFmpegResume(r)
    /\ UNCHANGED Outside

Timeout == \E t \in timers : Tidy /\ TimerTask(t) /\ UNCHANGED Outside

Terminate ==
  \E p \in Procs, code \in {0, 1} :
    Tidy /\ TerminateTask(p, code) /\ UNCHANGED Outside

Exited == \E p \in Procs : Tidy /\ ExitedTask(p) /\ UNCHANGED Outside

Tick == Tidy /\ TickTask /\ UNCHANGED <<hostVars, appVars>>

Release == ReleaseTask /\ UNCHANGED Outside

Next ==
  \/ Release
  \/ Start
  \/ Stop
  \/ Kill
  \/ Pause
  \/ Resume
  \/ Timeout
  \/ Terminate
  \/ Exited
  \/ Tick

Spec == Init /\ [][Next]_vars

\* ====================================================================
\* SpecCalls: Spec, and the caller also makes the calls the state does
\* not permit.
\* ====================================================================
InvalidStart ==
  \E r \in Constructed, spawnOk \in BOOLEAN :
    /\ state[r] # "idle"
    /\ StartCall(r, spawnOk)
    /\ UNCHANGED Outside

InvalidStop ==
  \E r \in Constructed :
    /\ state[r] \notin StopAllowed(r)
    /\ StopCall(r)
    /\ UNCHANGED Outside

InvalidPause ==
  \E r \in Constructed :
    /\ kind[r] = "ffmpeg"
    /\ state[r] # "recording"
    /\ FFmpegPause(r)
    /\ UNCHANGED Outside

InvalidResume ==
  \E r \in Constructed :
    /\ kind[r] = "ffmpeg"
    /\ state[r] # "paused"
    /\ FFmpegResume(r)
    /\ UNCHANGED Outside

NextCalls ==
  \/ Next
  \/ InvalidStart
  \/ InvalidStop
  \/ InvalidPause
  \/ InvalidResume

SpecCalls == Init /\ [][NextCalls]_vars

\* ====================================================================
\* SpecApp: MeetingTranscriberApp driving NativeAudioRecorder instances,
\* one per recording, from key presses.
\* ====================================================================
Selections ==
  {sel \in [mic : BOOLEAN, sys : BOOLEAN, both : BOOLEAN] : sel.both => sel.sys}

InitApp ==
  /\ InitOS
  /\ NoHost
  /\ platform = "darwin"
  /\ InitRecorders("none", [mic |-> FALSE, sys |-> FALSE])
  /\ recorder = NoRec
  /\ isStartingRecording = FALSE
  /\ recordingState = "idle"
  /\ selection \in Selections
  /\ errorMessage = ""
  /\ updateInterval = FALSE
  /\ startCalls = <<>>
  /\ stopCalls = {}
  /\ appAlive = TRUE

\* The listeners startRecording() attaches to every recorder it constructs:
\* stateChange sets state.recordingState, error sets state.errorMessage.
RECURSIVE ListenState(_, _)
ListenState(evs, cur) ==
  IF evs = <<>> THEN cur
  ELSE ListenState(Tail(evs),
                   IF Head(evs).ev = "stateChange" THEN Head(evs).state ELSE cur)

ListenError(evs, cur) ==
  IF \E i \in 1..Len(evs) : evs[i].ev = "error" THEN "error" ELSE cur

Listeners ==
  /\ recordingState' = ListenState(emitted', recordingState)
  /\ errorMessage' = ListenError(emitted', errorMessage)

\* A recorder instance nothing refers to any more: the app has let go of it,
\* no stopRecording() is working on it, and no timer, suspended stop() or
\* pending `exited` handler closes over it.
OrphanRecs ==
  {r \in Recs :
     /\ kind[r] # "none"
     /\ recorder # r
     /\ \A c \in stopCalls : c.rec # r
     /\ \A t \in timers : t.rec # r
     /\ \A w \in awaiting : w[1] # r
     /\ \A p \in Procs :
          owner[p] = r => pstat[p] \notin {"running", "suspended", "dead"}}

TidyApp == Tidy /\ OrphanRecs = {}

\* Mutant of StartGuard: the isStartingRecording flag is not consulted.
StartGuardNoFlag == recorder # NoRec \/ recordingState # "idle"

\* The guard that opens startRecording(): TRUE, the request is dropped.
StartGuard ==
  isStartingRecording \/ recorder # NoRec \/ recordingState # "idle"

\* Mutant of recordSystem: system audio is recorded whenever it is selected.
recordSystemWheneverSelected == selection.sys

recordMic == selection.mic
recordSystem == selection.sys /\ (selection.both \/ ~recordMic)

\* Key r on the main screen: startRecording() up to its first await.
KeyR ==
  /\ appAlive
  /\ TidyApp
  /\ recordingState = "idle"
  /\ emitted' = <<>>
  /\ IF StartGuard THEN
       /\ last' = Task("keyR", NoRec, "", "ignored", NoRec)
       /\ UNCHANGED <<isStartingRecording, errorMessage, startCalls>>
     ELSE IF ~recordMic /\ ~recordSystem THEN
       /\ last' = Task("keyR", NoRec, "", "noSource", NoRec)
       /\ isStartingRecording' = TRUE
       /\ errorMessage' = "select"
       /\ UNCHANGED startCalls
     ELSE
       /\ last' = Task("keyR", NoRec, "", "", NoRec)
       /\ isStartingRecording' = TRUE
       /\ startCalls' =
            Append(startCalls, [mic |-> recordMic, sys |-> recordSystem])
       /\ UNCHANGED errorMessage
  /\ UNCHANGED <<now, hostVars, recVars, osVars, loopVars, recorder,
                 recordingState, selection, updateInterval, stopCalls, appAlive>>

FreeRecs == {r \in Recs : kind[r] = "none"}
NextRec == CHOOSE r \in FreeRecs : \A q \in FreeRecs : r <= q

Without(seq, i) == SubSeq(seq, 1, i - 1) \o SubSeq(seq, i + 1, Len(seq))

\* ensureRecordingsDir() rejected: startRecording() ends there, outside its
\* try block.
MkdirFailed ==
  \E i \in 1..Len(startCalls) :
    /\ appAlive
    /\ TidyApp
    /\ startCalls' = Without(startCalls, i)
    /\ last' = Task("mkdir", NoRec, "", "MkdirFailed", NoRec)
    /\ emitted' = <<>>
    /\ UNCHANGED <<now, hostVars, recVars, osVars, loopVars, recorder,
                   isStartingRecording, recordingState, selection,
                   errorMessage, updateInterval, stopCalls, appAlive>>

\* ensureRecordingsDir() resolved: the rest of startRecording().  A new
\* NativeAudioRecorder is constructed (idle, so start() passes its guard) and
\* started; start() has no await of its own, so its outcome, the catch and
\* the finally block follow in the same task.
MkdirDone ==
  \E i \in 1..Len(startCalls), spawnOk \in BOOLEAN :
    /\ appAlive
    /\ TidyApp
    /\ FreeRecs # {}
    /\ startCalls' = Without(startCalls, i)
    /\ recorder' = NextRec
    /\ kind' = [kind EXCEPT ![NextRec] = "native"]
    /\ config' = [config EXCEPT ![NextRec] =
                    [mic |-> startCalls[i].mic, sys |-> startCalls[i].sys]]
    /\ last' = Task("startRecording", NextRec, "idle",
                    IF spawnOk THEN "" ELSE "SpawnFailed", NoRec)
    /\ IF spawnOk THEN Spawned(NextRec) ELSE SpawnFailed(NextRec)
    /\ recordingState' = ListenState(emitted', recordingState)
    /\ errorMessage' = IF spawnOk THEN "" ELSE "error"
    /\ updateInterval' = (spawnOk \/ updateInterval)
    /\ isStartingRecording' = FALSE
    /\ UNCHANGED <<now, hostVars, pausedDuration, pauseStartTime, exitCode,
                   sigs, loopVars, selection, stopCalls, appAlive>>

\* stopRecording() up to its first await; thenQuit: quit() is chained on it.
StopRecording(thenQuit) ==
  IF recorder = NoRec THEN
    /\ last' = Task("stopRecording", NoRec, "", "ignored", NoRec)
    /\ emitted' = <<>>
    /\ appAlive' = ~thenQuit
    /\ UNCHANGED <<recVars, osVars, loopVars, recorder, recordingState,
                   errorMessage, updateInterval, stopCalls>>
  ELSE
    /\ NativeStop(recorder)
    /\ updateInterval' = FALSE
    /\ recordingState' = ListenState(emitted', recordingState)
    /\ IF last'.err # "" THEN
         \* recorder.stop() threw: catch, then this.recorder = null
         /\ errorMessage' = "error"
         /\ recorder' = NoRec
         /\ appAlive' = ~thenQuit
         /\ UNCHANGED stopCalls
       ELSE
         /\ stopCalls' = stopCalls \cup
              {[rec |-> recorder, thenQuit |-> thenQuit,
                phase |-> IF last'.done = recorder THEN "scan" ELSE "stop"]}
         /\ UNCHANGED <<errorMessage, recorder, appAlive>>

\* Mutant of StopKeyHandled: x and q reach stopRecording() outside idle.
StopKeyHandledOutsideIdle(s) == s # "idle"

\* The branch of handleMainScreenKeys that holds the x and q cases which
\* call stopRecording().
StopKeyHandled(s) == s = "recording"

\* Key x on the main screen while recording.
KeyX ==
  /\ appAlive
  /\ TidyApp
  /\ StopKeyHandled(recordingState)
  /\ StopRecording(FALSE)
  /\ UNCHANGED <<now, hostVars, isStartingRecording, selection, startCalls>>

\* Key q on the main screen while recording: stopRecording().then(quit).
KeyQ ==
  /\ appAlive
  /\ TidyApp
  /\ StopKeyHandled(recordingState)
  /\ StopRecording(TRUE)
  /\ UNCHANGED <<now, hostVars, isStartingRecording, selection, startCalls>>

\* Key x or q on the main screen while the recording state is neither idle
\* nor recording: handleMainScreenKeys has no branch for it.
KeyStopDropped ==
  /\ appAlive
  /\ TidyApp
  /\ recordingState # "idle"
  /\ ~StopKeyHandled(recordingState)
  /\ last' = Task("keyX", recorder, recordingState, "ignored", NoRec)
  /\ emitted' = <<>>
  /\ UNCHANGED <<now, hostVars, recVars, osVars, loopVars, appVars>>

\* stopRecording() after `await this.recorder.stop()` has returned: it goes
\* on to `await this.scanRecordings()`.
StopReturned(calls, done) ==
  {IF c.rec = done /\ c.phase = "stop" THEN [c EXCEPT !.phase = "scan"] ELSE c :
     c \in calls}

\* scanRecordings() settled: this.recorder = null, then quit() if chained.
\* quit() finds no recorder to kill.
ScanDone ==
  \E c \in stopCalls :
    /\ appAlive
    /\ TidyApp
    /\ c.phase = "scan"
    /\ stopCalls' = stopCalls \ {c}
    /\ recorder' = NoRec
    /\ appAlive' = ~c.thenQuit
    /\ last' = Task("scanned", c.rec, "", "", NoRec)
    /\ emitted' = <<>>
    /\ UNCHANGED <<now, hostVars, recVars, osVars, loopVars,
                   isStartingRecording, recordingState, selection,
                   errorMessage, updateInterval, startCalls>>

\* quit(): stopUpdateInterval(), kill the recorder, process.exit(0).  With
\* the event loop gone no timer or continuation runs any more.
Quit ==
  /\ appAlive' = FALSE
  /\ updateInterval' = FALSE
  /\ IF recorder # NoRec
     THEN KillCall(recorder)
     ELSE /\ last' = Task("quit", NoRec, "", "", NoRec)
          /\ emitted' = <<>>
          /\ UNCHANGED <<recVars, osVars, loopVars>>
  /\ recordingState' = ListenState(emitted', recordingState)
  /\ UNCHANGED <<now, hostVars, recorder, isStartingRecording, selection,
                 errorMessage, startCalls, stopCalls>>

\* Ctrl-C on any screen, q on a screen other than the main one, or q on the
\* main screen while idle.
KeyQuit ==
  /\ appAlive
  /\ TidyApp
  /\ Quit

\* The event-loop and OS tasks, with the app's listeners and the
\* stopRecording() calls they release.
AppFrame ==
  <<now, hostVars, recorder, isStartingRecording, selection, updateInterval,
    startCalls, appAlive>>

AppTimeout ==
  \E t \in timers :
    /\ appAlive
    /\ TidyApp
    /\ TimerTask(t)
    /\ Listeners
    /\ stopCalls' = StopReturned(stopCalls, last'.done)
    /\ UNCHANGED AppFrame

AppExited ==
  \E p \in Procs :
    /\ appAlive
    /\ TidyApp
    /\ ExitedTask(p)
    /\ Listeners
    /\ stopCalls' = StopReturned(stopCalls, last'.done)
    /\ UNCHANGED AppFrame

AppTerminate ==
  \E p \in Procs, code \in {0, 1} :
    appAlive /\ TidyApp /\ TerminateTask(p, code) /\ UNCHANGED Outside

AppTick == appAlive /\ TidyApp /\ TickTask /\ UNCHANGED <<hostVars, appVars>>

\* Orphaned recorder instances go first, the subprocess objects only they
\* referred to after them.
AppRelease ==
  /\ appAlive
  /\ IF OrphanRecs # {} THEN
       /\ kind' = [r \in Recs |-> IF r \in OrphanRecs THEN "none" ELSE kind[r]]
       /\ state' = [r \in Recs |-> IF r \in OrphanRecs THEN "idle" ELSE state[r]]
       /\ process' =
            [r \in Recs |-> IF r \in OrphanRecs THEN NoProc ELSE process[r]]
       /\ config' = [r \in Recs |-> IF r \in OrphanRecs
                                     THEN [mic |-> FALSE, sys |-> FALSE]
                                     ELSE config[r]]
       /\ startTime' =
            [r \in Recs |-> IF r \in OrphanRecs THEN 0 ELSE startTime[r]]
       /\ last' = Task("release", NoRec, "", "", NoRec)
       /\ emitted' = <<>>
       /\ UNCHANGED <<pausedDuration, pauseStartTime, osVars, loopVars>>
     ELSE ReleaseTask
  /\ UNCHANGED Outside

NextApp ==
  \/ AppRelease
  \/ KeyR
  \/ MkdirFailed
  \/ MkdirDone
  \/ KeyX
  \/ KeyQ
  \/ KeyStopDropped
  \/ ScanDone
  \/ KeyQuit
  \/ AppTimeout
  \/ AppExited
  \/ AppTerminate
  \/ AppTick

SpecApp == InitApp /\ [][NextApp]_vars

\* ====================================================================
\* SpecSelect: init()'s device loading and permission check, and the keys
\* of the main and device-select screens that choose what is recorded.
\* A microphone d of the catalog has id d and name d; 0 is null / unset,
\* and MaxMics + 1 is a saved id or name of a device no longer present.
\* ====================================================================
MicIds == 1..MaxMics
SavedIds == 0..(MaxMics + 1)
Modes == {"mic", "system", "both"}

\* mics[0] ?? null
FirstMic(mics) ==
  IF mics = {} THEN 0 ELSE CHOOSE d \in mics : \A e \in mics : d <= e

\* mics.find((m) => m.id === key)
FindMic(mics, key) == IF key \in mics THEN key ELSE 0

\* Mutant of RestoreMic: the saved name is not looked at.
RestoreMicByIdOnly(mics, savedId, savedName) ==
  IF FindMic(mics, savedId) # 0 THEN FindMic(mics, savedId)
  ELSE FirstMic(mics)

\* loadDevices(): the saved microphone by id, else by name, else the first.
RestoreMic(mics, savedId, savedName) ==
  IF savedId # 0 \/ savedName # 0
    THEN LET byId == FindMic(mics, savedId)
             savedMic == IF byId = 0 /\ savedName # 0
                           THEN FindMic(mics, savedName) ELSE byId
         IN  IF savedMic # 0 THEN savedMic ELSE FirstMic(mics)
    ELSE FirstMic(mics)

\* Key b: the saved microphone by id only, else the first.
BothMic(mics, savedId) ==
  LET savedMic == IF savedId # 0 THEN FindMic(mics, savedId) ELSE 0
  IN  IF savedMic # 0 THEN savedMic ELSE FirstMic(mics)

\* A listing that does not look at the helper's exit code or at what
\* JSON.parse says.
ListingThrowsOnSpawnOnly(outcome) == outcome = "spawn"

\* listNativeDevices() throws when the helper cannot be spawned, exits
\* nonzero or prints what JSON.parse rejects.
ListingThrows(outcome) == outcome # "ok"

Selected(mic, sys, both) == [mic |-> mic # 0, sys |-> sys, both |-> both]

SelectFrame ==
  <<now, platform, helper, reader, probe, recVars, osVars, loopVars,
    recorder, isStartingRecording, recordingState, updateInterval,
    startCalls, stopCalls, appAlive>>

InitSelect ==
  /\ InitOS
  /\ platform = "darwin"
  /\ InitRecorders("none", [mic |-> FALSE, sys |-> FALSE])
  /\ recorder = NoRec
  /\ isStartingRecording = FALSE
  /\ recordingState = "idle"
  /\ selection = NoSelection
  /\ errorMessage = ""
  /\ updateInterval = FALSE
  /\ startCalls = <<>>
  /\ stopCalls = {}
  /\ appAlive = TRUE
  /\ probe = NoProbe
  /\ \E id \in SavedIds, name \in SavedIds, mode \in Modes :
       ui = [NoUi EXCEPT !.savedMicId = id, !.savedMicName = name,
                         !.savedMode = mode]

\* loadDevices(), the listing it awaits included.  The helper's listing
\* succeeds with any catalog, or fails; a failure is caught, reported in
\* errorMessage and leaves devices and selection as the constructor set
\* them.
LoadDevices ==
  \E outcome \in {"ok", "spawn", "exit", "parse"},
     mics \in SUBSET MicIds, sys \in BOOLEAN :
    /\ ui.loaded = "no"
    /\ IF ~ListingThrows(outcome)
         THEN LET mic == RestoreMic(mics, ui.savedMicId, ui.savedMicName)
                  both == ui.savedMode = "both" /\ sys
                  sel == IF ui.savedMode = "system" /\ sys THEN 0 ELSE mic
              IN  /\ ui' = [ui EXCEPT !.loaded = "ok", !.listing = outcome,
                                      !.mics = mics, !.system = sys,
                                      !.selectedMic = sel]
                  /\ selection' = Selected(sel, sys, both)
                  /\ UNCHANGED errorMessage
         ELSE /\ ui' = [ui EXCEPT !.loaded = "failed", !.listing = outcome]
              /\ errorMessage' = "devices"
              /\ UNCHANGED selection
    /\ last' = Task("loadDevices", NoRec, "", "", NoRec)
    /\ emitted' = <<>>
    /\ UNCHANGED SelectFrame

MainKeys ==
  /\ ui.loaded # "no"
  /\ ui.screen = "main"
  /\ recordingState = "idle"

\* Key m: showDeviceSelect("mic").
KeyM ==
  /\ MainKeys
  /\ IF ui.mics = {}
       THEN /\ errorMessage' = "nodevices"
            /\ UNCHANGED ui
       ELSE /\ ui' = [ui EXCEPT !.screen = "device-select"]
            /\ UNCHANGED errorMessage
  /\ last' = Task("keyM", NoRec, "", "", NoRec)
  /\ emitted' = <<>>
  /\ UNCHANGED <<SelectFrame, selection>>

\* Key s: system-only mode, when there is a system-audio device.
KeyS ==
  /\ MainKeys
  /\ IF selection.sys
       THEN /\ ui' = [ui EXCEPT !.selectedMic = 0]
            /\ selection' = Selected(0, TRUE, FALSE)
       ELSE UNCHANGED <<ui, selection>>
  /\ last' = Task("keyS", NoRec, "", "", NoRec)
  /\ emitted' = <<>>
  /\ UNCHANGED <<SelectFrame, errorMessage>>

\* Key b: both mode, when there is a system-audio device.
KeyB ==
  /\ MainKeys
  /\ IF selection.sys
       THEN LET mic == BothMic(ui.mics, ui.savedMicId)
            IN  /\ ui' = [ui EXCEPT !.selectedMic = mic]
                /\ selection' = Selected(mic, TRUE, TRUE)
       ELSE UNCHANGED <<ui, selection>>
  /\ last' = Task("keyB", NoRec, "", "", NoRec)
  /\ emitted' = <<>>
  /\ UNCHANGED <<SelectFrame, errorMessage>>

\* Return on the device-select screen: the highlighted microphone is
\* selected.
SelectEnter ==
  \E d \in ui.mics :
    /\ ui.screen = "device-select"
    /\ ui' = [ui EXCEPT !.selectedMic = d, !.screen = "main"]
    /\ selection' = Selected(d, selection.sys, selection.both)
    /\ last' = Task("selectEnter", NoRec, "", "", NoRec)
    /\ emitted' = <<>>
    /\ UNCHANGED <<SelectFrame, errorMessage>>

SelectEscape ==
  /\ ui.screen = "device-select"
  /\ ui' = [ui EXCEPT !.screen = "main"]
  /\ last' = Task("selectEscape", NoRec, "", "", NoRec)
  /\ emitted' = <<>>
  /\ UNCHANGED <<SelectFrame, selection, errorMessage>>

\* ---- checkPermissions() / checkScreenRecordingPermission()
\* What the check-permissions command prints: success=true, success=false
\* with an error text (denied, or its own 5 s wait timed out), or nothing
\* that parses.
PermissionOutputs == {"granted", "denied", "timeout", "garbage"}

PermissionGrantedAlways(out) == TRUE

\* result.success of the parsed output.
PermissionGranted(out) == out = "granted"

\* The status checkScreenRecordingPermission() returns for an output, or
\* for a helper that could not be spawned ("spawn").
PermissionStatus(out) ==
  IF out = "spawn"
    THEN [screenRecording |-> FALSE, errorMessage |-> "spawn"]
  ELSE IF out = "garbage"
    THEN [screenRecording |-> FALSE, errorMessage |-> "parse"]
  ELSE [screenRecording |-> PermissionGranted(out),
        errorMessage |-> IF out = "granted" THEN "" ELSE out]

PermStored(out) ==
  [ui EXCEPT !.perm = "done", !.out = out,
             !.screenRecordingPermission = PermissionStatus(out).screenRecording,
             !.permissionError = PermissionStatus(out).errorMessage]

PermFrame == <<SelectFrame, selection, errorMessage>>

\* checkPermissions() up to its await: with no system-audio device the
\* permission is not needed; otherwise the helper is spawned, or the spawn
\* throws and the check returns its failure.
PermStart ==
  \E spawnOk \in BOOLEAN :
    /\ ui.loaded # "no"
    /\ ui.perm = "none"
    /\ ui' = IF ~selection.sys
               THEN [ui EXCEPT !.perm = "done", !.out = "skipped",
                               !.screenRecordingPermission = TRUE,
                               !.permissionError = ""]
             ELSE IF spawnOk THEN [ui EXCEPT !.perm = "waiting"]
             ELSE PermStored("spawn")
    /\ last' = Task("permStart", NoRec, "", "", NoRec)
    /\ emitted' = <<>>
    /\ UNCHANGED PermFrame

\* Time passes while the helper waits for the system's answer.
PermWait ==
  /\ ui.perm = "waiting"
  /\ ui.waited < PermissionTimeoutMs
  /\ ui' = [ui EXCEPT !.waited = @ + PermissionTimeoutMs]
  /\ last' = Task("permWait", NoRec, "", "", NoRec)
  /\ emitted' = <<>>
  /\ UNCHANGED PermFrame

\* The system answered in time and the helper printed its line, or nothing
\* that parses.
PermAnswer ==
  \E out \in {"granted", "denied", "garbage"} :
    /\ ui.perm = "waiting"
    /\ ui.waited < PermissionTimeoutMs
    /\ ui' = [ui EXCEPT !.perm = "printed", !.out = out]
    /\ last' = Task("permAnswer", NoRec, "", "", NoRec)
    /\ emitted' = <<>>
    /\ UNCHANGED PermFrame

\* The helper's semaphore wait timed out.
PermTimeout ==
  /\ ui.perm = "waiting"
  /\ ui.waited >= PermissionTimeoutMs
  /\ ui' = [ui EXCEPT !.perm = "printed", !.out = "timeout"]
  /\ last' = Task("permTimeout", NoRec, "", "", NoRec)
  /\ emitted' = <<>>
  /\ UNCHANGED PermFrame

\* The helper has exited: the check parses its output and checkPermissions()
\* stores the status.
PermReturn ==
  /\ ui.perm = "printed"
  /\ ui' = PermStored(ui.out)
  /\ last' = Task("permReturn", NoRec, "", "", NoRec)
  /\ emitted' = <<>>
  /\ UNCHANGED PermFrame

NextSelect ==
  \/ LoadDevices
  \/ PermStart
  \/ PermWait
  \/ PermAnswer
  \/ PermTimeout
  \/ PermReturn
  \/ KeyM
  \/ KeyS
  \/ KeyB
  \/ SelectEnter
  \/ SelectEscape

SpecSelect == InitSelect /\ [][NextSelect]_vars

\* ====================================================================
\* SpecPure: the module-level functions of devices.ts, each applied once to
\* an input fixed at the start.
\* ====================================================================
\* ---- getRecorderPath()
\* The candidates in the order they are pushed: three beside process.argv[1]
\* when it is set, then five beside the script and the working directory.
Arg1Paths ==
  <<"arg1/recorder", "arg1/../dist/recorder", "arg1/../native/recorder">>
DevPaths ==
  <<"script/recorder", "script/../../native/recorder",
    "script/../../dist/recorder", "cwd/native/recorder", "cwd/dist/recorder">>
PossiblePaths(hasArg1) == IF hasArg1 THEN Arg1Paths \o DevPaths ELSE DevPaths
AllPaths == {(Arg1Paths \o DevPaths)[i] : i \in 1..8}

\* The loop over possiblePaths: the first p with existsSync(p), "" if none.
RECURSIVE FirstExisting(_, _)
FirstExisting(paths, exists) ==
  IF paths = <<>> THEN ""
  ELSE IF Head(paths) \in exists THEN Head(paths)
  ELSE FirstExisting(Tail(paths), exists)

\* A fallback to the candidate tried last.
DefaultPathLast(paths) == paths[Len(paths)]

\* possiblePaths[0] ?? "native/recorder": the list is never empty.
DefaultPath(paths) == paths[1]

getRecorderPath(hasArg1, exists) ==
  LET paths == PossiblePaths(hasArg1)
      found == FirstExisting(paths, exists)
  IN  IF found # "" THEN found ELSE DefaultPath(paths)

\* ---- parseMacOSDevices / parseWindowsDevices / parseLinuxDevices
\* A listing is a sequence of lines, each of one kind: "audio" and "video"
\* hold the audio / video section header, "dev" is a device line in the
\* format the parser looks for ([n] name, "name", or index name), "alt" a
\* quoted "Alternative name" line and "noise" any other line.
LineKinds == {"audio", "video", "dev", "alt", "noise"}

RECURSIVE TextsOf(_)
TextsOf(n) == IF n = 0 THEN {<<>>} ELSE [1..n -> LineKinds] \cup TextsOf(n - 1)

\* A parser that never leaves the audio section.
EndsAudioSectionNever(line) == FALSE

\* line.includes("... video devices")
EndsAudioSection(line) == line = "video"

\* The device of line i: its position stands for its name, index is the
\* number parsed from the line or the parser's counter.
Device(i, index) == [line |-> i, index |-> index]

\* parseMacOSDevices from line i on: /\[(\d+)\]\s+(.+)$/ matches "dev" only.
RECURSIVE ParseMacOS(_, _, _)
ParseMacOS(text, i, inAudioSection) ==
  IF i > Len(text) THEN <<>>
  ELSE IF text[i] = "audio" THEN ParseMacOS(text, i + 1, TRUE)
  ELSE IF EndsAudioSection(text[i]) THEN ParseMacOS(text, i + 1, FALSE)
  ELSE IF inAudioSection /\ text[i] = "dev"
    THEN <<Device(i, i)>> \o ParseMacOS(text, i + 1, inAudioSection)
  ELSE ParseMacOS(text, i + 1, inAudioSection)

\* parseWindowsDevices from line i on: /"([^"]+)"/ matches "dev" and "alt",
\* and a line with "Alternative name" is left out.
RECURSIVE ParseWindows(_, _, _, _)
ParseWindows(text, i, inAudioSection, index) ==
  IF i > Len(text) THEN <<>>
  ELSE IF text[i] = "audio" THEN ParseWindows(text, i + 1, TRUE, index)
  ELSE IF EndsAudioSection(text[i])
    THEN ParseWindows(text, i + 1, FALSE, index)
  ELSE IF inAudioSection /\ text[i] \in {"dev", "alt"} /\ text[i] # "alt"
    THEN <<Device(i, index)>>
           \o ParseWindows(text, i + 1, inAudioSection, index + 1)
  ELSE ParseWindows(text, i + 1, inAudioSection, index)

\* parseLinuxDevices from line i on: a line contributes when its first word
\* is a number and it has a second word, which only "dev" lines do.
RECURSIVE ParseLinux(_, _)
ParseLinux(text, i) ==
  IF i > Len(text) THEN <<>>
  ELSE IF text[i] = "dev" THEN <<Device(i, i)>> \o ParseLinux(text, i + 1)
  ELSE ParseLinux(text, i + 1)

\* ---- identifySystemAudioDevices
\* A device name is a few pieces of text, each in lower case or with capitals.
Words ==
  {"blackhole", "loopback", "soundflower", "stereo mix", "what u hear",
   ".monitor", "microphone", "built-in audio", "2ch"}
Piece(w, upper) == [w |-> w, upper |-> upper]
Pieces == [w : Words, upper : BOOLEAN]

RECURSIVE NamesOf(_)
NamesOf(n) == IF n = 0 THEN {} ELSE [1..n -> Pieces] \cup NamesOf(n - 1)

\* A comparison that keeps the name's capitals.
KeepCase(name) == name

\* device.name.toLowerCase()
toLowerCase(name) == [i \in DOMAIN name |-> Piece(name[i].w, FALSE)]

\* nameLower.includes(marker), the marker in lower case
Includes(name, marker) ==
  \E i \in DOMAIN name : name[i] = Piece(marker, FALSE)

\* The flags identifySystemAudioDevices sets to true on one device.
identifySystemAudioDevice(name, pf) ==
  LET nameLower == toLowerCase(name) IN
  IF pf = "darwin" THEN
    IF \/ Includes(nameLower, "blackhole")
       \/ Includes(nameLower, "loopback")
       \/ Includes(nameLower, "soundflower")
      THEN {"isSystemAudio"}
             \cup (IF Includes(nameLower, "blackhole")
                     THEN {"isBlackHole"} ELSE {})
      ELSE {}
  ELSE IF pf = "win32" THEN
    IF \/ Includes(nameLower, "stereo mix")
       \/ Includes(nameLower, "what u hear")
       \/ Includes(nameLower, "loopback")
      THEN {"isSystemAudio", "isStereoMix"}
      ELSE {}
  ELSE
    IF Includes(nameLower, ".monitor")
      THEN {"isSystemAudio", "isMonitor"}
      ELSE {}

\* ---- getDeviceInputArgs / AudioRecorder.buildFFmpegArgs
\* An argument is the run of texts a template string puts together: "-y" is
\* <<"-y">>, `:${device.index}` is <<":", index>>.
NoDevice == [index |-> "", name |-> ""]
AudioDevices ==
  {[index |-> "0", name |-> "Mic"], [index |-> "1", name |-> "BlackHole"]}

\* outputFormat and bitrate may be left empty, which `||` replaces.
OutputFormats == {"m4a", "mp3", "wav", "mkv", ""}
Bitrates == {"128k", ""}
OutputPaths == {"out.m4a", "-y"}

RecorderConfigs ==
  [micDevice : AudioDevices \cup {NoDevice},
   systemDevice : AudioDevices \cup {NoDevice},
   outputPath : OutputPaths,
   outputFormat : OutputFormats,
   mixAudio : BOOLEAN,
   bitrate : Bitrates]

\* Mutant of getDeviceInputArgs: no input is named.
getDeviceInputArgsNone(device, pf) == <<>>

getDeviceInputArgs(device, pf) ==
  IF pf = "darwin"
    THEN <<(<<"-f">>), (<<"avfoundation">>), (<<"-i">>), (<<":", device.index>>)>>
  ELSE IF pf = "win32"
    THEN <<(<<"-f">>), (<<"dshow">>), (<<"-i">>), (<<"audio=", device.name>>)>>
  ELSE <<(<<"-f">>), (<<"pulse">>), (<<"-i">>), (<<device.name>>)>>

buildFFmpegArgs(cfg, pf) ==
  LET micDevice == cfg.micDevice # NoDevice
      systemDevice == cfg.systemDevice # NoDevice
      format == IF cfg.outputFormat # "" THEN cfg.outputFormat ELSE "m4a"
      rate == IF cfg.bitrate # "" THEN cfg.bitrate ELSE "192k"
  IN  <<(<<"-y">>)>>
        \o (IF micDevice THEN getDeviceInputArgs(cfg.micDevice, pf) ELSE <<>>)
        \o (IF systemDevice
              THEN getDeviceInputArgs(cfg.systemDevice, pf) ELSE <<>>)
        \o (IF micDevice /\ systemDevice /\ cfg.mixAudio
              THEN <<(<<"-filter_complex">>),
                     (<<"[0:a][1:a]amix=inputs=2:duration=longest:dropout_transition=2[a]">>),
                     (<<"-map">>), (<<"[a]">>)>>
            ELSE IF micDevice /\ systemDevice /\ ~cfg.mixAudio
              THEN <<(<<"-map">>), (<<"0:a">>), (<<"-map">>), (<<"1:a">>)>>
            ELSE <<>>)
        \o (IF format = "m4a"
              THEN <<(<<"-c:a">>), (<<"aac">>), (<<"-b:a">>), (<<rate>>),
                     (<<"-ar">>), (<<"44100">>), (<<"-ac">>), (<<"2">>)>>
            ELSE IF format = "mp3"
              THEN <<(<<"-c:a">>), (<<"libmp3lame">>), (<<"-b:a">>), (<<rate>>),
                     (<<"-ar">>), (<<"44100">>), (<<"-ac">>), (<<"2">>)>>
            ELSE IF format = "wav"
              THEN <<(<<"-c:a">>), (<<"pcm_s16le">>),
                     (<<"-ar">>), (<<"44100">>), (<<"-ac">>), (<<"2">>)>>
            ELSE <<>>)
        \o <<(<<cfg.outputPath>>)>>

\* ---- the calls
Call(fn, input) == [fn |-> fn, input |-> input, output |-> <<>>, done |-> FALSE]

\* type Platform: every host getPlatform() can name.
HostPlatforms == {"darwin", "win32", "linux"}

InitPure ==
  /\ InitOS
  /\ platform \in HostPlatforms
  /\ InitRecorders("none", [mic |-> FALSE, sys |-> FALSE])
  /\ NoApp
  /\ ui = NoUi
  /\ \/ \E hasArg1 \in BOOLEAN, exists \in SUBSET AllPaths :
          probe = Call("getRecorderPath",
                       [hasArg1 |-> hasArg1, exists |-> exists])
     \/ \E fn \in {"parseMacOSDevices", "parseWindowsDevices",
                   "parseLinuxDevices"}, text \in TextsOf(MaxLines) :
          probe = Call(fn, text)
     \/ \E name \in NamesOf(MaxWords) :
          probe = Call("identifySystemAudioDevices", name)
     \/ \E cfg \in RecorderConfigs :
          probe = Call("buildFFmpegArgs", cfg)

PureFrame ==
  <<now, platform, helper, reader, ui, recVars, osVars, loopVars, appVars>>

Returned(fn, output) ==
  /\ probe.fn = fn
  /\ ~probe.done
  /\ probe' = [probe EXCEPT !.output = output, !.done = TRUE]
  /\ last' = Task(fn, NoRec, "", "", NoRec)
  /\ emitted' = <<>>
  /\ UNCHANGED PureFrame

CallGetRecorderPath ==
  /\ probe.fn = "getRecorderPath"
  /\ Returned("getRecorderPath",
              getRecorderPath(probe.input.hasArg1, probe.input.exists))

CallParseMacOS ==
  /\ probe.fn = "parseMacOSDevices"
  /\ Returned("parseMacOSDevices", ParseMacOS(probe.input, 1, FALSE))

CallParseWindows ==
  /\ probe.fn = "parseWindowsDevices"
  /\ Returned("parseWindowsDevices", ParseWindows(probe.input, 1, FALSE, 0))

CallParseLinux ==
  /\ probe.fn = "parseLinuxDevices"
  /\ Returned("parseLinuxDevices", ParseLinux(probe.input, 1))

CallIdentify ==
  /\ probe.fn = "identifySystemAudioDevices"
  /\ Returned("identifySystemAudioDevices",
           identifySystemAudioDevice(probe.input, platform))

CallBuildFFmpegArgs ==
  /\ probe.fn = "buildFFmpegArgs"
  /\ Returned("buildFFmpegArgs", buildFFmpegArgs(probe.input, platform))

NextPure ==
  \/ CallGetRecorderPath
  \/ CallParseMacOS
  \/ CallParseWindows
  \/ CallParseLinux
  \/ CallIdentify
  \/ CallBuildFFmpegArgs

SpecPure == InitPure /\ [][NextPure]_vars

\* ====================================================================
\* SpecConfig: one recorder of either class whose caller also calls
\* setConfig(), in any state.
\* ====================================================================
SetConfig ==
  \E r \in Constructed, cfg \in Configs :
    /\ SetConfigCall(r, cfg)
    /\ UNCHANGED Outside

NextConfig ==
  \/ Release
  \/ Start
  \/ Stop
  \/ Kill
  \/ SetConfig
  \/ Timeout
  \/ Terminate
  \/ Exited
  \/ Tick

SpecConfig == Init /\ [][NextConfig]_vars

\* ====================================================================
\* SpecTime: one recorder of either class through start, pause, resume and
\* stop, under a clock that advances by a millisecond or by a whole stop
\* timeout at a time.
\* ====================================================================
ClockSteps == {1, StopTimeoutMs}

\* Clock advances so far: `now` is a sum of at most MaxAdvances steps.
Advances == (now % StopTimeoutMs) + (now \div StopTimeoutMs)

InitTime ==
  /\ InitOS
  /\ NoHost
  /\ platform \in Platforms
  /\ \E k \in {"native", "ffmpeg"} :
       /\ k = "native" => platform = "darwin"
       /\ InitRecorders(k, [mic |-> TRUE, sys |-> FALSE])
  /\ NoApp

TimeStart ==
  \E r \in Constructed :
    /\ state[r] = "idle"
    /\ StartCall(r, TRUE)
    /\ UNCHANGED Outside

TimeStop ==
  \E r \in Constructed :
    /\ state[r] \in StopAllowed(r)
    /\ StopCall(r)
    /\ UNCHANGED Outside

TimePause ==
  \E r \in Constructed :
    /\ kind[r] = "ffmpeg"
    /\ state[r] = "recording"
    /\ Pauses(r) < MaxCycles
    /\ FFmpegPause(r)
    /\ UNCHANGED Outside

TimeAdvance ==
  \E d \in ClockSteps :
    /\ Tidy
    /\ Advances < MaxAdvances
    /\ \A t \in timers : t.due > now
    /\ \A p \in Procs : pstat[p] # "dead"
    /\ now' = now + d
    /\ last' = Task("tick", NoRec, "", "", NoRec)
    /\ emitted' = <<>>
    /\ UNCHANGED <<hostVars, recVars, osVars, loopVars, appVars>>

NextTime ==
  \/ Release
  \/ TimeStart
  \/ TimeStop
  \/ TimePause
  \/ Resume
  \/ Timeout
  \/ Terminate
  \/ Exited
  \/ TimeAdvance

SpecTime == InitTime /\ [][NextTime]_vars

\* ====================================================================
\* SpecHelper: one NativeAudioRecorder and the helper it spawns.  The
\* helper's own steps take the place of Terminate.
\* ====================================================================
InitHelper ==
  /\ InitOS
  /\ NoHost
  /\ platform = "darwin"
  /\ \E cfg \in Configs : InitRecorders("native", cfg)
  /\ NoApp

HelperSpawn ==
  \E r \in Constructed :
    /\ state[r] = "idle"
    /\ ~HelperRuns
    /\ NativeStart(r, TRUE)
    /\ helper' = [NoHelper EXCEPT !.proc = NextProc, !.phase = "starting",
                                  !.mode = HelperMode(config[r])]
    /\ UNCHANGED <<now, platform, reader, ui, probe, appVars>>

NextHelper ==
  \/ Release
  \/ HelperSpawn
  \/ Stop
  \/ HelperStarted
  \/ HelperStartFailed
  \/ HelperSignal
  \/ HelperStopSession
  \/ HelperMergeExit
  \/ Timeout
  \/ Exited
  \/ Tick

SpecHelper == InitHelper /\ [][NextHelper]_vars

\* SpecHelperFair: SpecHelper with the helper's own progress.  The main
\* queue is drained by RunLoop.current.run(), so a dispatch source with a
\* signal to report runs its handler; the wait loop wakes every 100 ms and
\* reads the flag; the merge tool, once launched, comes to an end.  Nothing
\* is assumed of the session start, of the clock or of the controller.
HelperFairness ==
  /\ WF_vars(HelperSignal)
  /\ WF_vars(HelperStopSession)
  /\ WF_vars(HelperMergeExit)

SpecHelperFair == SpecHelper /\ HelperFairness

\* ====================================================================
\* SpecOutput: one NativeAudioRecorder, its subprocess and the reader of
\* that subprocess's stdout, fed any text.  One reader is followed at a
\* time: the recorder is started again only after the reader has left its
\* loop.
\* ====================================================================
InitOutput ==
  /\ InitOS
  /\ NoHost
  /\ platform = "darwin"
  /\ InitRecorders("native", [mic |-> TRUE, sys |-> FALSE])
  /\ NoApp

OutputStart ==
  \E r \in Constructed :
    /\ state[r] = "idle"
    /\ ~reader.open
    /\ NativeStart(r, TRUE)
    /\ reader' = [NoReader EXCEPT !.proc = NextProc, !.open = TRUE]
    /\ UNCHANGED <<now, platform, helper, ui, probe, appVars>>

NextOutput ==
  \/ Release
  \/ OutputStart
  \/ ReadChunk
  \/ ReadDone
  \/ Terminate
  \/ Exited

SpecOutput == InitOutput /\ [][NextOutput]_vars

TypeOK ==
  /\ \A r \in Recs : state[r] \in RecordingState
  /\ \A r \in Recs : process[r] \in Procs \cup {NoProc}

\* ====================================================================
\* Properties
\* ====================================================================
Has(seq, x) == \E i \in 1..Len(seq) : seq[i] = x
Before(seq, x, y) ==
  \A j \in 1..Len(seq) : seq[j] = y => \E i \in 1..(j - 1) : seq[i] = x

\* C1: a recorder is in exactly one of the four states, and when a stop()
\* call returns - the subprocess exited in time, or the 5 s timer fired and
\* force-killed it - the recorder's state is idle.
C1_StopReturnsIdle ==
  /\ \A r \in Recs : state[r] \in RecordingState
  /\ last.done # NoRec => state[last.done] = "idle"

\* C2: of two start requests in immediate succession - the second arrives
\* while the first has passed the guard and not yet finished - the second is
\* dropped: it queues no start, constructs no recorder and spawns nothing, so
\* never more than one start is under way.
C2_SingleFlightStart ==
  [][/\ Len(startCalls') <= 1
     /\ (last'.op = "keyR" /\ isStartingRecording) =>
          /\ last'.err = "ignored"
          /\ startCalls' = startCalls
          /\ kind' = kind
          /\ pstat' = pstat]_vars

C2_Witness ==
  /\ last.op = "keyR"
  /\ last.err = "ignored"
  /\ Len(startCalls) = 1
  /\ recorder = NoRec

\* C3: stop() sends SIGINT before any SIGKILL; if the subprocess exits
\* before the 5 s timer fires, that timer sends no SIGKILL to anything; if the
\* timer fires first (and kill() was not called meanwhile), SIGKILL is sent
\* to the subprocess.
C3_GracefulThenForce ==
  \A p \in Procs :
    /\ stopOutcome[p] # "none" =>
         Has(sigs[p], "SIGINT") /\ Before(sigs[p], "SIGINT", "SIGKILL")
    /\ stopOutcome[p] = "exited" => timerKilled[p] = "none"
    /\ (stopOutcome[p] = "timeout" /\ ~Has(sigs[p], "SIGTERM")) =>
         Has(sigs[p], "SIGKILL")

\* C4: in every state of the app at most one recorder is out of idle and at
\* most one recorder subprocess is alive.
C4_OneSessionOneProcess ==
  /\ Cardinality({r \in Recs : kind[r] # "none" /\ state[r] # "idle"}) <= 1
  /\ Cardinality({p \in Procs : Alive(p)}) <= 1

C4_Witness ==
  /\ recorder # NoRec
  /\ state[recorder] = "recording"
  /\ Alive(process[recorder])
  /\ \E t \in timers : t.rec # recorder /\ pstat[t.proc] = "reaped"

\* C5: start() on a recorder that is not idle throws, spawns nothing and
\* leaves state, process handle and start time as they were.
C5_StartWhenNotIdle ==
  [][\A r \in Recs :
       (last'.op = "start" /\ last'.rec = r /\ state[r] # "idle") =>
         /\ last'.err = "InvalidState"
         /\ pstat' = pstat
         /\ state'[r] = state[r]
         /\ process'[r] = process[r]
         /\ startTime'[r] = startTime[r]]_vars

C5_Witness ==
  /\ last.op = "start"
  /\ last.err = "InvalidState"
  /\ last.pre = "recording"
  /\ process[last.rec] # NoProc

\* C6: stop() outside recording/paused, pause() outside recording and
\* resume() outside paused throw, send no signal and leave the state as it
\* was.
Permitted(op, s) ==
  CASE op = "stop" -> s \in {"recording", "paused"}
    [] op = "pause" -> s = "recording"
    [] op = "resume" -> s = "paused"
    [] OTHER -> TRUE

C6_WrongStateCall ==
  [][\A r \in Recs :
       (last'.op \in {"stop", "pause", "resume"} /\ last'.rec = r
          /\ ~Permitted(last'.op, state[r])) =>
         /\ last'.err = "InvalidState"
         /\ sigs' = sigs
         /\ state'[r] = state[r]]_vars

C6_Witness ==
  /\ last.op = "stop"
  /\ last.err = "InvalidState"
  /\ last.pre = "stopping"
  /\ process[last.rec] # NoProc
  /\ Alive(process[last.rec])

\* C7: when the spawn inside start() fails, start() throws, an error event
\* is emitted and the state is idle, so the next start() is let in.
C7_SpawnFailure ==
  (last.op = "start" /\ last.err = "SpawnFailed") =>
    /\ state[last.rec] = "idle"
    /\ Has(emitted, ErrorEv(last.rec))
    /\ (FreeProcs # {} =>
          ENABLED (StartCall(last.rec, TRUE) /\ last'.err = ""))

C7_Witness ==
  /\ last.op = "start"
  /\ last.err = "SpawnFailed"
  /\ FreeProcs # {}

\* C8: when the subprocess exits while the state is recording, the state
\* becomes idle and stateChange(idle) is emitted.
C8_UnexpectedExit ==
  (last.op = "exited" /\ last.pre = "recording") =>
    /\ state[last.rec] = "idle"
    /\ Has(emitted, StateChange(last.rec, "idle"))

C8_Witness ==
  /\ last.op = "exited"
  /\ last.pre = "recording"
  /\ last.done = NoRec
  /\ state[last.rec] = "idle"

\* C9: whenever the subprocess exits while the state is recording, an error
\* event is emitted.
C9_UnexpectedExitError ==
  (last.op = "exited" /\ last.pre = "recording") =>
    Has(emitted, ErrorEv(last.rec))

\* C10: an idle recorder holds no process handle.
C10_IdleHoldsNoHandle ==
  \A r \in Recs : state[r] = "idle" => process[r] = NoProc


\* C11: every change of a recorder's state is an allowed transition: idle to
\* recording on start, recording to paused on pause, paused to recording on
\* resume, recording or paused to stopping on stop, stopping to idle on
\* subprocess exit or timeout, recording to idle on subprocess exit, anything
\* to idle on kill; and the native recorder is never paused.
AllowedTransition(op, s, t) ==
  CASE op = "start" -> s = "idle" /\ t = "recording"
    [] op = "pause" -> s = "recording" /\ t = "paused"
    [] op = "resume" -> s = "paused" /\ t = "recording"
    [] op = "stop" -> s \in {"recording", "paused"} /\ t = "stopping"
    [] op = "exited" -> s \in {"stopping", "recording"} /\ t = "idle"
    [] op = "timeout" -> s = "stopping" /\ t = "idle"
    [] op = "kill" -> t = "idle"
    [] OTHER -> FALSE

C11_AllowedTransitions ==
  [][\A r \in Recs :
       /\ state'[r] # state[r] => AllowedTransition(last'.op, state[r], state'[r])
       /\ kind[r] = "native" => state'[r] # "paused"]_vars


\* C12: for the FFmpeg recorder, the elapsed time read right after resume()
\* equals the elapsed time read at the moment of pause(): pause() leaves the
\* reading as it was, the reading does not move while paused, and resume()
\* leaves it as it was.
C12_PauseExcluded ==
  [][\A r \in Recs :
       (/\ kind[r] = "ffmpeg"
        /\ \/ last'.op = "pause" /\ last'.rec = r /\ last'.err = ""
           \/ last'.op = "resume" /\ last'.rec = r /\ last'.err = ""
           \/ state[r] = "paused" /\ state'[r] = "paused") =>
         FFmpegElapsedTime(r)' = FFmpegElapsedTime(r)]_vars

C12_Witness ==
  /\ last.op = "resume"
  /\ last.err = ""
  /\ state[last.rec] = "recording"
  /\ pausedDuration[last.rec] > StopTimeoutMs
  /\ Pauses(last.rec) = 2
  /\ FFmpegElapsedTime(last.rec) > 0


\* C13: from start() until the state is idle again, the elapsed time is
\* never negative and never decreases, whatever pause(), resume(), stop()
\* calls and clock advances come between, in a first session and in a later
\* one on the same recorder.
C13_ElapsedMonotonic ==
  [][\A r \in Recs :
       /\ state'[r] # "idle" => getElapsedTime(r)' >= 0
       /\ (state[r] # "idle" /\ state'[r] # "idle") =>
            getElapsedTime(r)' >= getElapsedTime(r)]_vars

C13_Witness ==
  /\ kind[1] = "ffmpeg"
  /\ state[1] = "stopping"
  /\ process[1] = 2
  /\ Has(sigs[1], "SIGCONT")
  /\ Has(sigs[2], "SIGSTOP")
  /\ pausedDuration[1] > 0
  /\ startTime[1] > 0
  /\ getElapsedTime(1) > 0


\* C14: once the helper has launched the merge tool it waits for it to end:
\* the helper is never killed - by the 5 s timer of stop() in particular -
\* while the merge is under way.
C14_MergeNotAborted ==
  helper.phase = "merging" => pstat[helper.proc] \notin {"dead", "reaped"}

\* C15: a both-mode recording whose merge tool is unavailable ends with the
\* two temporary files renamed to <base>_mic and <base>_system, no temporary
\* file left and nothing at the requested output path.
C15_FallbackRenames ==
  (helper.mode = "both" /\ helper.merge = "unavailable") =>
    helper.files = {"mic", "system"}

C15_Witness ==
  /\ helper.mode = "both"
  /\ helper.merge = "unavailable"
  /\ helper.phase = "exited"
  /\ helper.out = <<"started", "stopped">>

\* C16: the merge tool is launched in both-mode only, with both temporary
\* files recorded; after it exits with status 0 the temporary files are gone
\* and the merged file is at the output path; in mic-only and system-only
\* mode the recording is at the output path and no merge is attempted.
C16_MergeOnlyForBoth ==
  /\ helper.merge # "none" => helper.mode = "both"
  /\ helper.merge = "launched" => helper.files = TempFiles
  /\ helper.merge = "ok" => helper.files = {"output"}
  /\ (helper.mode # "both" /\ Has(helper.out, "started")) =>
       helper.files = {"output"}

C16_Witness ==
  /\ helper.merge = "ok"
  /\ helper.phase = "exited"
  /\ helper.mode = "both"
  /\ helper.files = {"output"}

\* The event the protocol gives one complete line of the helper's stdout.
WellFormed(line) == line \in {<<"S1", "S2">>, <<"P">>, <<"E">>, <<"O">>}
Recognised(line) ==
  CASE line = <<"S1", "S2">> -> <<HelperEv("started", "")>>
    [] line = <<"P">> -> <<HelperEv("stopped", "")>>
    [] line = <<"E">> -> <<HelperEv("error", "failed")>>
    [] OTHER -> <<>>

RECURSIVE EventsOf(_)
EventsOf(lines) ==
  IF lines = <<>> THEN <<>>
  ELSE Recognised(Head(lines)) \o EventsOf(Tail(lines))

LinesFed(rd) == Complete(Split(rd.fed))

\* C17: whatever the reads cut the stream into, the events emitted so far are
\* those of the complete lines written so far, in order: one started event
\* for each "Recording started" line, one stopped event for each "Recording
\* stopped" line, one error event with its text for each success=false line
\* with an error text, and nothing for any other line.
C17_LineEvents == reader.heard = EventsOf(LinesFed(reader))

C17_Witness ==
  /\ last.op = "read"
  /\ reader.fed = <<"P", "NL", "E", "NL">>
  /\ reader.heard = <<HelperEv("stopped", ""), HelperEv("error", "failed")>>

\* C18: a read that has taken in a malformed line leaves the recorder's
\* state and subprocess as they were and the reader still reading, and the
\* events emitted are exactly those of the well-formed lines, the ones after
\* the malformed line included.
C18_MalformedIgnored ==
  [][(/\ last'.op = "read"
      /\ \E i \in 1..Len(LinesFed(reader')) :
           /\ LinesFed(reader')[i] # <<>>
           /\ ~WellFormed(LinesFed(reader')[i])) =>
       /\ state' = state
       /\ process' = process
       /\ reader'.open
       /\ reader'.heard =
            EventsOf(SelectSeq(LinesFed(reader'), WellFormed))]_vars

C18_Witness ==
  /\ last.op = "read"
  /\ reader.open
  /\ reader.fed = <<"X", "NL", "P", "NL">>
  /\ reader.heard = <<HelperEv("stopped", "")>>

\* C19: a run of the record command prints "Recording started" and later,
\* only after a signal, "Recording stopped" and exits 0, or prints an error
\* and exits nonzero; "stopped" never comes without "started" before it, and
\* exit 0 only after "stopped".
C19_HelperProtocol ==
  /\ helper.out \in {<<>>, <<"started">>, <<"started", "stopped">>, <<"error">>}
  /\ Has(helper.out, "stopped") => helper.shouldStop
  /\ helper.phase = "exited" =>
       \/ helper.code = 0 /\ helper.out = <<"started", "stopped">>
       \/ helper.code # 0 /\ helper.out = <<"error">>

C19_Witness ==
  /\ helper.phase = "exited"
  /\ helper.code = 0
  /\ helper.out = <<"started", "stopped">>
  /\ helper.merge = "failed"

\* C20: a start() on an idle recorder that has neither the microphone nor
\* system audio selected throws, spawns no subprocess and leaves the
\* recorder idle.
C20_NoSourceNoSpawn ==
  [][\A r \in Recs :
       (/\ last'.op = "start"
        /\ last'.rec = r
        /\ state[r] = "idle"
        /\ ~config[r].mic
        /\ ~config[r].sys) =>
         /\ last'.err # ""
         /\ pstat' = pstat
         /\ state'[r] = "idle"]_vars

\* C21: whenever both-mode is set, a microphone and a system-audio device
\* are both selected.
C21_BothModeHasBoth == selection.both => (selection.mic /\ selection.sys)

\* C23: after a device listing that failed the app is still running, its
\* device list is empty, no microphone and no system-audio device is
\* selected, and loadDevices() has left the failure in errorMessage.
C23_ListingFailureEmpty ==
  (ui.loaded # "no" /\ ui.listing # "ok") =>
    /\ appAlive
    /\ ui.mics = {}
    /\ ~ui.system
    /\ ui.selectedMic = 0
    /\ selection = Selected(0, FALSE, FALSE)
    /\ last.op = "loadDevices" => errorMessage = "devices"

C23_Witness ==
  /\ last.op = "loadDevices"
  /\ ui.listing = "parse"
  /\ ui.savedMode = "both"
  /\ ui.savedMicId = 1
  /\ errorMessage = "devices"

\* C26: the permission check reports screenRecording=true only for a helper
\* that printed success=true; a helper whose wait timed out after 5 s, that
\* printed nothing parsable or that could not be spawned gives
\* screenRecording=false with an error message; the check always returns.
C26_PermissionCheck ==
  (ui.perm = "done" /\ ui.out # "skipped") =>
    /\ ui.screenRecordingPermission => ui.out = "granted"
    /\ ui.out \in {"timeout", "garbage", "spawn"} =>
         (~ui.screenRecordingPermission /\ ui.permissionError # "")
    /\ ui.out = "timeout" <=> ui.waited >= PermissionTimeoutMs

C26_Witness ==
  /\ ui.perm = "done"
  /\ ui.out = "timeout"
  /\ ui.waited = PermissionTimeoutMs
  /\ ~ui.screenRecordingPermission
  /\ ui.permissionError = "timeout"

\* C22: getRecorderPath returns the first candidate, in the search order,
\* that exists; when none exists it returns the first candidate.
C22_FirstExistingPath ==
  (probe.fn = "getRecorderPath" /\ probe.done) =>
    LET paths == PossiblePaths(probe.input.hasArg1)
        hits == {i \in 1..Len(paths) : paths[i] \in probe.input.exists}
    IN  /\ hits = {} => probe.output = paths[1]
        /\ \A i \in hits :
             (\A j \in hits : i <= j) => probe.output = paths[i]

C22_Witness ==
  /\ probe.fn = "getRecorderPath"
  /\ probe.done
  /\ probe.input.hasArg1
  /\ probe.input.exists = {"cwd/dist/recorder", "script/recorder"}
  /\ probe.output = "script/recorder"

\* Line i of a listing lies in the audio section: an audio header comes
\* before it with no video header in between.
InAudioSection(text, i) ==
  \E j \in 1..(i - 1) :
    /\ text[j] = "audio"
    /\ \A k \in (j + 1)..(i - 1) : text[k] # "video"

\* C24: a parser given a listing with no matching device line - no audio
\* section, or no device line inside it - returns the empty sequence, and
\* every device the macOS and Windows parsers return comes from a device
\* line inside the audio section.
C24_ParsersEmptyOnNoMatch ==
  /\ (probe.done /\ probe.fn \in {"parseMacOSDevices", "parseWindowsDevices"}) =>
       /\ (\A i \in 1..Len(probe.input) :
             ~(probe.input[i] = "dev" /\ InAudioSection(probe.input, i)))
            => probe.output = <<>>
       /\ \A n \in 1..Len(probe.output) :
            /\ probe.input[probe.output[n].line] = "dev"
            /\ InAudioSection(probe.input, probe.output[n].line)
  /\ (probe.done /\ probe.fn = "parseLinuxDevices") =>
       /\ (\A i \in 1..Len(probe.input) : probe.input[i] # "dev")
            => probe.output = <<>>
       /\ \A n \in 1..Len(probe.output) :
            probe.input[probe.output[n].line] = "dev"

C24_Witness ==
  /\ probe.done
  /\ probe.fn = "parseWindowsDevices"
  /\ probe.input = <<"dev", "audio", "alt", "video">>
  /\ probe.output = <<>>

\* C25: a device is marked isSystemAudio exactly when its name, whatever
\* its capitals, contains one of the platform's markers; isBlackHole only
\* for names with blackhole, isMonitor for the Linux matches; "BlackHole 2ch"
\* on macOS, "Built-in Audio.monitor" on Linux and "Microphone" are marked
\* as the examples say.
Markers(pf) ==
  IF pf = "darwin" THEN {"blackhole", "loopback", "soundflower"}
  ELSE IF pf = "win32" THEN {"stereo mix", "what u hear", "loopback"}
  ELSE {".monitor"}
Contains(name, w) == \E i \in DOMAIN name : name[i].w = w

C25_SystemAudioMarkers ==
  (probe.fn = "identifySystemAudioDevices" /\ probe.done) =>
    /\ "isSystemAudio" \in probe.output <=>
         \E m \in Markers(platform) : Contains(probe.input, m)
    /\ "isBlackHole" \in probe.output => Contains(probe.input, "blackhole")
    /\ "isMonitor" \in probe.output <=>
         (platform = "linux" /\ Contains(probe.input, ".monitor"))
    /\ (platform = "darwin"
        /\ probe.input = <<Piece("blackhole", TRUE), Piece("2ch", FALSE)>>)
         => probe.output = {"isSystemAudio", "isBlackHole"}
    /\ (platform = "linux"
        /\ probe.input = <<Piece("built-in audio", TRUE),
                           Piece(".monitor", FALSE)>>)
         => probe.output = {"isSystemAudio", "isMonitor"}
    /\ probe.input = <<Piece("microphone", TRUE)>> => probe.output = {}

C25_Witness ==
  /\ probe.fn = "identifySystemAudioDevices"
  /\ probe.done
  /\ platform = "darwin"
  /\ probe.input = <<Piece("blackhole", TRUE), Piece("2ch", FALSE)>>
  /\ probe.output = {"isSystemAudio", "isBlackHole"}

\* A session of recorder r is running: a subprocess r spawned is alive and
\* nothing has been sent to it to end it.
RunningSession(r) ==
  \E p \in Procs :
    /\ owner[p] = r
    /\ Alive(p)
    /\ \A i \in 1..Len(sigs[p]) :
         sigs[p][i] \notin {"SIGINT", "SIGTERM", "SIGKILL"}

\* C27: a recorder's configuration changes only by a setConfig() made while
\* its state is idle; a setConfig() in another state throws and changes
\* nothing; and the configuration does not change while a session of the
\* recorder is running.
C27_ConfigOnlyWhenIdle ==
  [][\A r \in Recs :
       /\ config'[r] # config[r] =>
            (last'.op = "setConfig" /\ last'.rec = r /\ state[r] = "idle")
       /\ (last'.op = "setConfig" /\ last'.rec = r /\ state[r] # "idle") =>
            (last'.err # "" /\ config' = config /\ state' = state)
       /\ RunningSession(r) => config'[r] = config[r]]_vars

\* The guard alone: a configuration changes only by a setConfig() in state
\* idle, and a setConfig() in another state throws and changes nothing.
SetConfigGuarded ==
  [][\A r \in Recs :
       /\ config'[r] # config[r] =>
            (last'.op = "setConfig" /\ last'.rec = r /\ state[r] = "idle")
       /\ (last'.op = "setConfig" /\ last'.rec = r /\ state[r] # "idle") =>
            (last'.err # "" /\ config' = config /\ state' = state)]_vars

\* C28: the force-kill timer a stop() armed signals only the subprocess
\* that stop() was stopping: no timer sends SIGKILL to the subprocess of a
\* session started after it was armed.
C28_TimerKillsOwnProcess == \A p \in Procs : timerKilled[p] # "other"

\* C29: the exit callback of an earlier session's subprocess, and the
\* timer of an earlier stop(), leave the state and the process handle of
\* the recorder's later session as they were; and a recorder is never idle
\* while a session of it is running.
C29_StaleCompletionsInert ==
  [][\A r \in Recs :
       /\ \A p \in Procs :
            (/\ pstat[p] = "dead"
             /\ pstat'[p] = "reaped"
             /\ owner[p] = r
             /\ process[r] \notin {NoProc, p}) =>
              (state'[r] = state[r] /\ process'[r] = process[r])
       /\ \A t \in timers \ timers' :
            (t.rec = r /\ process[r] \notin {NoProc, t.proc}) =>
              (state'[r] = state[r] /\ process'[r] = process[r])
       /\ state'[r] = "idle" => ~RunningSession(r)']_vars

\* C30: a key r pressed while the app's recording state is idle, no start
\* is in progress and a microphone or system audio is selected begins a
\* start: it is not dropped.
C30_IdleCanStart ==
  [][(/\ last'.op = "keyR"
      /\ recordingState = "idle"
      /\ ~isStartingRecording
      /\ startCalls = <<>>
      /\ selection.mic \/ selection.sys) =>
       /\ last'.err = ""
       /\ Len(startCalls') = 1]_vars

\* C31: whenever no startRecording() call is under way - each one made has
\* returned, whether it started a recording, failed to spawn or found no
\* source selected - the isStartingRecording flag is false.
C31_GuardReleased == startCalls = <<>> => ~isStartingRecording


\* C32: for the FFmpeg recorder, stop() called while paused leaves the
\* elapsed time where the pause put it - the interval from the last pause()
\* to stop() is not counted - and the duration reported with `finished` is
\* the elapsed time the pause had frozen.
C32_FinalPauseExcluded ==
  [][\A r \in Recs :
       (/\ kind[r] = "ffmpeg"
        /\ state[r] = "paused"
        /\ last'.op = "stop" /\ last'.rec = r /\ last'.err = "") =>
         FFmpegElapsedTime(r)' = FFmpegElapsedTime(r)]_vars


\* C33: a second stop key pressed while the first stopRecording() is still
\* waiting for the helper changes nothing - no signal, no recorder state, no
\* timer, no pending call, no error message - and no helper process is ever
\* sent SIGINT twice.
Signalled(p, sig) == Cardinality({i \in 1..Len(sigs[p]) : sigs[p][i] = sig})

C33_SecondStopInert ==
  [][/\ \A p \in Procs : Signalled(p, "SIGINT")' <= 1
     /\ ((\E c \in stopCalls : c.phase = "stop")
           /\ last'.op \in {"keyX", "stop"}) =>
          UNCHANGED <<recVars, osVars, loopVars, recorder, recordingState,
                      errorMessage, stopCalls, appAlive>>]_vars

C33_Witness ==
  /\ last.op = "keyX"
  /\ last.err = "ignored"
  /\ recordingState = "stopping"
  /\ \E c \in stopCalls : c.phase = "stop" /\ c.rec = recorder
  /\ recorder # NoRec
  /\ state[recorder] = "stopping"
  /\ sigs[process[recorder]] = <<"SIGINT">>
  /\ Alive(process[recorder])


\* C34: off Windows, stop() on a paused FFmpeg recorder sends its subprocess
\* SIGCONT first and SIGINT second, and nothing else, so the interrupt
\* reaches a process that is running again.
C34_ContinueBeforeInterrupt ==
  [][\A r \in Recs :
       (/\ kind[r] = "ffmpeg"
        /\ state[r] = "paused"
        /\ platform # "win32"
        /\ process[r] # NoProc
        /\ last'.op = "stop" /\ last'.rec = r /\ last'.err = "") =>
         /\ sigs'[process[r]] = sigs[process[r]] \o <<"SIGCONT", "SIGINT">>
         /\ Before(sigs'[process[r]], "SIGCONT", "SIGINT")]_vars

C34_Witness ==
  /\ last.op = "stop"
  /\ last.pre = "paused"
  /\ last.err = ""
  /\ platform = "darwin"
  /\ kind[last.rec] = "ffmpeg"
  /\ state[last.rec] = "stopping"
  /\ \E p \in Procs :
       /\ owner[p] = last.rec
       /\ sigs[p] = <<"SIGSTOP", "SIGCONT", "SIGINT">>


\* C35: a SIGINT or SIGTERM sent to the helper at any moment of its run -
\* while the session is still starting as well as while it records - is not
\* lost: once the session has started, the helper goes on to stop it, print
\* "Recording stopped" and exit 0, unless it is killed with SIGKILL first.
SignalSent ==
  IF helper.proc = NoProc THEN FALSE
  ELSE Has(sigs[helper.proc], "SIGINT") \/ Has(sigs[helper.proc], "SIGTERM")

HelperKilled ==
  IF helper.proc = NoProc THEN FALSE ELSE Has(sigs[helper.proc], "SIGKILL")

HelperStoppedCleanly ==
  /\ helper.phase = "exited"
  /\ helper.code = 0
  /\ helper.out = <<"started", "stopped">>

C35_SignalNotLost ==
  (HelperRuns /\ helper.phase = "recording" /\ SignalSent)
    ~> (HelperStoppedCleanly \/ HelperKilled)

\* The session start returns with the signal already taken in.
C35_Witness ==
  /\ last.op = "helperStarted"
  /\ helper.phase = "recording"
  /\ helper.shouldStop
  /\ helper.handled = 1
  /\ HelperRuns
  /\ sigs[helper.proc] = <<"SIGINT">>


\* C36: after a loadDevices() whose listing succeeded, the selected
\* microphone is the listed one with the saved id; failing that, the listed
\* one with the saved name; failing that, the first listed; with none
\* listed, none.  When a system-audio device is listed, a saved mode of
\* system deselects the microphone and a saved mode of both sets both-mode;
\* in every other case both-mode is off and the microphone stays selected.
PreferredMic ==
  IF ui.savedMicId \in ui.mics THEN ui.savedMicId
  ELSE IF ui.savedMicName \in ui.mics THEN ui.savedMicName
  ELSE IF ui.mics # {} THEN CHOOSE d \in ui.mics : \A e \in ui.mics : d <= e
  ELSE 0

C36_RestoredSelection ==
  (last.op = "loadDevices" /\ ui.loaded = "ok") =>
    /\ selection.sys = ui.system
    /\ selection.mic = (ui.selectedMic # 0)
    /\ CASE ui.savedMode = "system" /\ ui.system ->
              ui.selectedMic = 0 /\ ~selection.both
         [] ui.savedMode = "both" /\ ui.system ->
              ui.selectedMic = PreferredMic /\ selection.both
         [] OTHER ->
              ui.selectedMic = PreferredMic /\ ~selection.both

C36_Witness ==
  /\ last.op = "loadDevices"
  /\ ui.loaded = "ok"
  /\ ui.mics = MicIds
  /\ ui.savedMicId \notin ui.mics
  /\ ui.savedMicId # 0
  /\ ui.savedMicName = MaxMics
  /\ ui.selectedMic = MaxMics
  /\ ui.savedMode = "both"
  /\ selection = [mic |-> TRUE, sys |-> TRUE, both |-> TRUE]


\* C37: for the recorder startRecording() has started, the flag given to the
\* helper is --both exactly when a microphone and a system-audio device are
\* selected and both-mode is set, --system exactly when a system-audio
\* device and no microphone is selected, and --mic otherwise; the session
\* of the helper records the microphone exactly under --mic and --both and
\* system audio exactly under --system and --both.
StartedByApp(r) ==
  /\ r = recorder
  /\ kind[r] = "native"
  /\ process[r] # NoProc

C37_FlagNamesSources ==
  \A r \in Recs :
    StartedByApp(r) =>
      LET flag == HelperMode(config[r])
          wantBoth == selection.mic /\ selection.sys /\ selection.both
          wantSystem == selection.sys /\ ~selection.mic
      IN  /\ flag = "both" <=> wantBoth
          /\ flag = "system" <=> wantSystem
          /\ flag = "mic" <=> (~wantBoth /\ ~wantSystem)
          /\ SessionSources(flag).mic <=> flag \in {"mic", "both"}
          /\ SessionSources(flag).sys <=> flag \in {"system", "both"}
          /\ SessionSources(flag).mic \/ SessionSources(flag).sys

\* A microphone and a system-audio device are selected without both-mode:
\* the recording started is of the microphone alone.
C37_Witness ==
  /\ recorder # NoRec
  /\ StartedByApp(recorder)
  /\ Alive(process[recorder])
  /\ selection = [mic |-> TRUE, sys |-> TRUE, both |-> FALSE]
  /\ HelperMode(config[recorder]) = "mic"
  /\ SessionSources("mic") = [mic |-> TRUE, sys |-> FALSE]


\* C38: the list buildFFmpegArgs returns starts with -y and ends with the
\* output path.  After -y comes one group -f <format> -i <device> for each
\* configured device, the microphone's before the system device's, and no
\* other -i.  With both devices, the filter -filter_complex <amix> -map [a]
\* follows exactly when mixAudio is set, and -map 0:a -map 1:a exactly when
\* it is not; with fewer than two devices there is no filter and no map.
\* What remains before the output path is the codec settings of the output
\* format (m4a when none is given): none for mkv, the format's codec first
\* for the others, with the bitrate for m4a and mp3.
Arg(text) == <<text>>

ConfiguredDevices(cfg) ==
  (IF cfg.micDevice # NoDevice THEN <<cfg.micDevice>> ELSE <<>>)
    \o (IF cfg.systemDevice # NoDevice THEN <<cfg.systemDevice>> ELSE <<>>)

CodecOf(format) ==
  CASE format \in {"m4a", ""} -> "aac"
    [] format = "mp3" -> "libmp3lame"
    [] format = "wav" -> "pcm_s16le"
    [] OTHER -> ""

C38_ArgumentList ==
  (probe.fn = "buildFFmpegArgs" /\ probe.done) =>
    LET cfg == probe.input
        args == probe.output
        devices == ConfiguredDevices(cfg)
        n == Len(devices)
        both == n = 2
        filterAt == 4 * n + 2
        codecAt == filterAt + (IF both THEN 4 ELSE 0)
        codec == SubSeq(args, codecAt, Len(args) - 1)
    IN  /\ args[1] = Arg("-y")
        /\ args[Len(args)] = Arg(cfg.outputPath)
        /\ Len(args) >= codecAt
        /\ \A k \in 1..n :
             /\ args[4 * k - 2] = Arg("-f")
             /\ args[4 * k] = Arg("-i")
             /\ args[4 * k + 1][Len(args[4 * k + 1])]
                  \in {devices[k].index, devices[k].name}
        /\ Cardinality({j \in 1..Len(args) : args[j] = Arg("-i")}) = n
        /\ (both /\ cfg.mixAudio) <=> Has(args, Arg("-filter_complex"))
        /\ (both /\ cfg.mixAudio) =>
             SubSeq(args, filterAt, filterAt + 3) =
               <<Arg("-filter_complex"),
                 Arg("[0:a][1:a]amix=inputs=2:duration=longest:dropout_transition=2[a]"),
                 Arg("-map"), Arg("[a]")>>
        /\ (both /\ ~cfg.mixAudio) <=> Has(args, Arg("0:a"))
        /\ (both /\ ~cfg.mixAudio) =>
             SubSeq(args, filterAt, filterAt + 3) =
               <<Arg("-map"), Arg("0:a"), Arg("-map"), Arg("1:a")>>
        /\ ~both => ~Has(args, Arg("-map"))
        /\ IF cfg.outputFormat = "mkv" THEN codec = <<>>
           ELSE /\ Len(codec) = (IF cfg.outputFormat = "wav" THEN 6 ELSE 8)
                /\ SubSeq(codec, 1, 2)
                     = <<Arg("-c:a"), Arg(CodecOf(cfg.outputFormat))>>
                /\ cfg.outputFormat # "wav" =>
                     /\ codec[3] = Arg("-b:a")
                     /\ codec[4] =
                          Arg(IF cfg.bitrate # "" THEN cfg.bitrate ELSE "192k")

\* Two different devices kept as separate tracks on Windows, format and
\* bitrate left to their defaults.
C38_Witness ==
  /\ probe.fn = "buildFFmpegArgs"
  /\ probe.done
  /\ platform = "win32"
  /\ probe.input.micDevice.name = "Mic"
  /\ probe.input.systemDevice.name = "BlackHole"
  /\ ~probe.input.mixAudio
  /\ probe.input.outputFormat = ""
  /\ probe.input.bitrate = ""
  /\ Len(probe.output) = 22
  /\ probe.output[5] = <<"audio=", "Mic">>
  /\ probe.output[9] = <<"audio=", "BlackHole">>
  /\ probe.output[17] = <<"192k">>

====
